---- MODULE Spec2Model ----
(***************************************************************************)
(* A model of andreyvit/tagparser (src/tagparser.go): the item scanner of  *)
(* Configuration.ParseFunc, its closures fail, flush and checkEscape, and  *)
(* the value normalizer Configuration.unquoteTrim; and the map-building    *)
(* entry points Configuration.Parse and Configuration.ParseName, which     *)
(* call ParseFunc with a callback of their own.                            *)
(*                                                                         *)
(* A tag is a sequence of bytes; a byte is a one-character string.  The    *)
(* code's indices are 0-based and are kept 0-based here: At(s, k) is s[k]  *)
(* and Slice(s, a, b) is s[a:b].                                           *)
(***************************************************************************)
EXTENDS Integers, Sequences, FiniteSets, TLC

VARIABLES tag, conf, api, pc, i, quoteStart, nesting, inValue, start, key,
          keyStart, count, parseErr, fails, calls, name, opts, text, panic, twin,
          other, solo

vars == <<tag, conf, api, pc, i, quoteStart, nesting, inValue, start, key,
          keyStart, count, parseErr, fails, calls, name, opts, text, panic, twin,
          other, solo>>

(***************************************************************************)
(* Bounds of the model and the bytes tags are built from.                  *)
(***************************************************************************)
MaxLen == 4
MaxNestLen == 5
MaxParseLen == 7
MaxShortLen == 3
MaxPos == 11
MaxApply == 2
MaxFairLen == 3
MaxConcLen == 2

BS == "\\"
QT == "'"

\* the lower-case letters, upper-case letters and digits of checkEscape's
\* range test, restricted to the bytes of the alphabet
Letters == {"a"}
Digits == {"1"}

\* the bytes of the tags of Spec: a letter, the quote, the backslash, the
\* separators, a whitespace byte and a pair of brackets
Alphabet == {"a", QT, BS, ":", ",", " ", "(", ")"}

\* the bytes of the tags of SpecEscape: a letter and a digit next to the
\* backslash and the bytes that open the three scanner states
EscapeAlphabet == {"a", "1", BS, QT, "(", ",", " "}

\* the bytes of the tags of SpecNest: brackets and the bytes that are special
\* outside them
NestAlphabet == {"a", "(", ")", ",", ":", QT}

\* the bytes of the tags of SpecTrim: two whitespace bytes next to a letter,
\* the backslash, the quote and the separators
TrimAlphabet == {"a", " ", "\t", BS, QT, ",", ":"}

\* the bytes of the tags of SpecCause: a key, the separators, and the quote and
\* the backslash, which raise the syntax errors
CauseAlphabet == {"a", ",", ":", QT, BS}

\* the bytes of the tags of SpecFair: a letter, the separators and the bytes
\* that open the three scanner states
FairAlphabet == {"a", ",", ":", QT, BS, "("}

\* the bytes of the tags of SpecConc: a key, the comma and the bytes that open
\* a quoted string and brackets
ConcAlphabet == {"a", ",", QT, "("}

\* the bytes of the tags of SpecParse: two keys or values and the separators
ParseAlphabet == {"a", "b", ":", ","}

TagsOver(A, n) == UNION {[1..k -> A] : k \in 0..n}

Configurations ==
    [FirstItemIsName : BOOLEAN, AllowParenEscape : BOOLEAN, AllowMiddleQuote : BOOLEAN]

WithName == [FirstItemIsName |-> TRUE, AllowParenEscape |-> FALSE, AllowMiddleQuote |-> FALSE]
WithoutName == [FirstItemIsName |-> FALSE, AllowParenEscape |-> FALSE, AllowMiddleQuote |-> FALSE]
VMihailenco == [FirstItemIsName |-> TRUE, AllowParenEscape |-> TRUE, AllowMiddleQuote |-> TRUE]

\* the Configurations with AllowParenEscape set
NestConfigurations == {c \in Configurations : c.AllowParenEscape}

\* what a callback may return: nil or an error of its own
CallbackReturns == {"nil", "errCallback"}

(***************************************************************************)
(* Strings.                                                                *)
(***************************************************************************)
At(s, k) == s[k + 1]
Slice(s, a, b) == SubSeq(s, a + 1, b)
IndexByte(s, c) == \E k \in 1..Len(s) : s[k] = c

\* var asciiSpace = [256]uint8{'\t': 1, '\n': 1, '\v': 1, '\f': 1, '\r': 1, ' ': 1}
\* (the vertical tab has no escape in a TLA+ string: VT stands for the byte 0x0B)
VT == "\\v"

asciiSpace == {"\t", "\n", VT, "\f", "\r", " "}

(***************************************************************************)
(* The messages of the syntax errors.  Error.Msg is a string: a message is *)
(* modelled as a one-element sequence, a key used as Msg as its bytes.     *)
(***************************************************************************)
MsgInvalidEscape == <<"invalid escape character">>
MsgUnterminatedEscape == <<"unterminated escape sequence">>
MsgUnterminatedQuote == <<"unterminated quote">>
MsgInvalidQuote == <<"invalid quote">>
MsgEmptyKey == <<"empty key">>

\* a nil error; a non-nil *Error is a one-element sequence holding the Error
NilErr == <<>>

(***************************************************************************)
(* Error.Error.  A rendered string is the sequence of its pieces: the      *)
(* bytes of a key, a message or the text of a cause as one piece, and the  *)
(* bytes of the format string and of the decimal number one by one.        *)
(***************************************************************************)
DigitBytes == <<"0", "1", "2", "3", "4", "5", "6", "7", "8", "9">>

\* the verb %d of fmt.Sprintf
RECURSIVE Decimal(_)
Decimal(n) ==
    IF n < 10 THEN <<DigitBytes[n + 1]>>
    ELSE Decimal(n \div 10) \o <<DigitBytes[(n % 10) + 1]>>

\* var ErrDuplicateKey = errors.New("duplicate option key")
ErrDuplicateKey == "ErrDuplicateKey"

\* the verb %v of fmt.Sprintf on an error: the text of cause.Error()
CauseText(cause) ==
    IF cause = ErrDuplicateKey THEN <<"duplicate option key">> ELSE <<cause>>

\* Error.Error with a bug: the 0-based position is printed
ErrorZeroBased(e) ==
    IF e.Cause # "nil"
    THEN IF e.Msg # <<>>
         THEN e.Msg \o <<":", " ">> \o CauseText(e.Cause) \o <<" ", "(", "a", "t", " ">>
                  \o Decimal(e.Pos) \o <<")">>
         ELSE CauseText(e.Cause) \o <<" ", "(", "a", "t", " ">> \o Decimal(e.Pos) \o <<")">>
    ELSE e.Msg \o <<" ", "(", "a", "t", " ">> \o Decimal(e.Pos) \o <<")">>

\* func (e *Error) Error() string
Error(e) ==
    IF e.Cause # "nil"
    THEN IF e.Msg # <<>>
         THEN e.Msg \o <<":", " ">> \o CauseText(e.Cause) \o <<" ", "(", "a", "t", " ">>
                  \o Decimal(e.Pos + 1) \o <<")">>
         ELSE CauseText(e.Cause) \o <<" ", "(", "a", "t", " ">> \o Decimal(e.Pos + 1) \o <<")">>
    ELSE e.Msg \o <<" ", "(", "a", "t", " ">> \o Decimal(e.Pos + 1) \o <<")">>

(***************************************************************************)
(* Configuration.unquoteTrim: trims leading and trailing unescaped ASCII   *)
(* whitespace, processes escape sequences and removes single quotes.       *)
(* It returns (result, parseErr, errPos).                                  *)
(***************************************************************************)
OpenBrackets == {"(", "[", "{"}
CloseBrackets == {")", "]", "}"}

\* for start < n && asciiSpace[s[start]] != 0 { start++ }
RECURSIVE trimStart(_, _)
trimStart(s, k) ==
    IF k < Len(s) /\ At(s, k) \in asciiSpace THEN trimStart(s, k + 1) ELSE k

\* trimEnd with a bug: the last byte is dropped whatever it is
trimEndOneMore(s, from, k) == IF k > from THEN k - 1 ELSE k

\* trimEnd with a bug: trailing whitespace is kept
trimEndNone(s, from, k) == k

\* for end > start && asciiSpace[s[end-1]] != 0 { end-- }
RECURSIVE trimEnd(_, _, _)
trimEnd(s, from, k) ==
    IF k > from /\ At(s, k - 1) \in asciiSpace THEN trimEnd(s, from, k - 1) ELSE k

\* quoteCase with a bug: a quote the strict rule rejects stays in the output
quoteCaseKept(c, st) ==
    LET qc == st.quoteCount + 1
        bad == ~c.AllowMiddleQuote /\ (qc > 2 \/ (qc = 1 /\ Len(st.b) > 0))
    IN [st EXCEPT !.quoteCount = qc,
                  !.parseErr = IF bad /\ st.parseErr = "" THEN "invalid quote" ELSE @,
                  !.errPos = IF bad /\ st.parseErr = "" THEN st.i ELSE @,
                  !.b = IF bad THEN Append(@, QT) ELSE @,
                  !.inQuote = ~@,
                  !.i = st.i + 1]

\* quoteCase with a bug: every rejected quote overwrites the error position
quoteCaseLast(c, st) ==
    LET qc == st.quoteCount + 1
        bad == ~c.AllowMiddleQuote /\ (qc > 2 \/ (qc = 1 /\ Len(st.b) > 0))
    IN [st EXCEPT !.quoteCount = qc,
                  !.parseErr = IF bad THEN "invalid quote" ELSE @,
                  !.errPos = IF bad THEN st.i ELSE @,
                  !.inQuote = ~@,
                  !.i = st.i + 1]

\* the quote case of mainLoop at nesting 0: the quote is counted, checked
\* against the strict rule, toggles inQuote and is not emitted
quoteCase(c, st) ==
    LET qc == st.quoteCount + 1
        bad == ~c.AllowMiddleQuote /\ (qc > 2 \/ (qc = 1 /\ Len(st.b) > 0))
    IN [st EXCEPT !.quoteCount = qc,
                  !.parseErr = IF bad /\ st.parseErr = "" THEN "invalid quote" ELSE @,
                  !.errPos = IF bad /\ st.parseErr = "" THEN st.i ELSE @,
                  !.inQuote = ~@,
                  !.i = st.i + 1]

\* bracketCase with a bug: brackets are counted whatever the Configuration says
bracketCaseAlways(c, ch, depth) ==
    IF ch \in OpenBrackets
    THEN depth + 1
    ELSE IF ch \in CloseBrackets
         THEN (IF depth > 0 THEN depth - 1 ELSE depth)
         ELSE depth

\* the nesting depth after the bracket cases of mainLoop
bracketCase(c, ch, depth) ==
    IF ch \in OpenBrackets
    THEN (IF c.AllowParenEscape THEN depth + 1 ELSE depth)
    ELSE IF ch \in CloseBrackets
         THEN (IF c.AllowParenEscape /\ depth > 0 THEN depth - 1 ELSE depth)
         ELSE depth

\* mainLoop: for i := start; i < end; i++ { ... }
RECURSIVE mainLoop(_, _, _, _)
mainLoop(c, s, end, st) ==
    IF ~(st.i < end) THEN st
    ELSE LET ch == At(s, st.i) IN
         IF ch = BS
         THEN mainLoop(c, s, end,
                  IF st.i + 1 < Len(s)
                  THEN [st EXCEPT !.b = Append(@, At(s, st.i + 1)), !.i = st.i + 2]
                  ELSE [st EXCEPT !.i = st.i + 1])
         ELSE IF ch = QT /\ st.nesting = 0
              THEN mainLoop(c, s, end, quoteCase(c, st))
              ELSE mainLoop(c, s, end,
                       [st EXCEPT !.nesting = bracketCase(c, ch, @),
                                  !.b = Append(@, ch),
                                  !.i = st.i + 1])

unquoteTrim(c, s) ==
    LET n == Len(s)
        from == trimStart(s, 0)
        end == trimEnd(s, from, n)
    IN IF ~IndexByte(s, BS) /\ ~IndexByte(s, QT)
       THEN [result |-> Slice(s, from, end), parseErr |-> "", errPos |-> 0]
       ELSE LET st == mainLoop(c, s, end,
                          [i |-> from, b |-> <<>>, inQuote |-> FALSE, nesting |-> 0,
                           quoteCount |-> 0, parseErr |-> "", errPos |-> 0])
            IN [result |-> st.b, parseErr |-> st.parseErr, errPos |-> st.errPos]

(***************************************************************************)
(* Configuration.ParseFunc.  The error latch is threaded through the       *)
(* closures as E = [err, log]: err is parseErr, and log is the history of  *)
(* all calls of fail, in execution order (fails).                          *)
(***************************************************************************)
Latch == [err |-> parseErr, log |-> fails]

\* conf with AllowMiddleQuote set the other way.  twin is the error latch of
\* the same call of ParseFunc on Counterpart: the scan loop reads no
\* AllowMiddleQuote, so the two calls scan in step, and twin takes every
\* step with unquoteTrim running on Counterpart instead of conf
Counterpart == [conf EXCEPT !.AllowMiddleQuote = ~@]

\* fail with a bug: the last error wins
failLast(E, pos, msg, cause) ==
    LET e == [Tag |-> tag, Pos |-> pos, Msg |-> msg, Cause |-> cause]
    IN [err |-> <<e>>, log |-> Append(E.log, e)]

\* fail with a bug: the latch keeps the error with the smallest position
failLeftmost(E, pos, msg, cause) ==
    LET e == [Tag |-> tag, Pos |-> pos, Msg |-> msg, Cause |-> cause]
    IN [err |-> IF E.err = NilErr \/ pos < E.err[1].Pos THEN <<e>> ELSE E.err,
        log |-> Append(E.log, e)]

\* fail := func(i int, msg string, cause error)
fail(E, pos, msg, cause) ==
    LET e == [Tag |-> tag, Pos |-> pos, Msg |-> msg, Cause |-> cause]
    IN [err |-> IF E.err = NilErr THEN <<e>> ELSE E.err,
        log |-> Append(E.log, e)]

\* failIf with a bug: the error of unquoteTrim is given a Cause
failIfCaused(E, r, base) ==
    IF r.parseErr # "" THEN fail(E, base + r.errPos, <<r.parseErr>>, "errCallback") ELSE E

\* if errMsg != "" { fail(base+errPos, errMsg, nil) }
failIf(E, r, base) ==
    IF r.parseErr # "" THEN fail(E, base + r.errPos, <<r.parseErr>>, "nil") ELSE E

\* checkEscape with a bug: the unterminated escape is reported at i, not i-1
checkEscapeAtEnd(E, k) ==
    IF k >= Len(tag)
    THEN fail(E, k, MsgUnterminatedEscape, "nil")
    ELSE IF At(tag, k) \in Letters \cup Digits
         THEN fail(E, k, MsgInvalidEscape, "nil")
         ELSE E

\* checkEscape with a bug: only letters are rejected, escaped digits pass
checkEscapeLettersOnly(E, k) ==
    IF k >= Len(tag)
    THEN fail(E, k - 1, MsgUnterminatedEscape, "nil")
    ELSE IF At(tag, k) \in Letters
         THEN fail(E, k, MsgInvalidEscape, "nil")
         ELSE E

\* checkEscape := func(i int)
checkEscape(E, k) ==
    IF k >= Len(tag)
    THEN fail(E, k - 1, MsgUnterminatedEscape, "nil")
    ELSE IF At(tag, k) \in Letters \cup Digits
         THEN fail(E, k, MsgInvalidEscape, "nil")
         ELSE E

(***************************************************************************)
(* The callbacks.  A map[string]string is a set of <<key, value>> pairs    *)
(* with one pair per key; opts is NilMap (a nil map) or <<m>> for a map m. *)
(* A callback yields its result and the new name and opts.                 *)
(***************************************************************************)
NilMap == <<>>

\* _, ok := opts[key]
HasKey(m, k) == \E kv \in m : kv[1] = k

\* if opts == nil { opts = make(map[string]string) }
MakeIfNil(o) == IF o = NilMap THEN {} ELSE o[1]

\* the callback of Parse with a bug: a later occurrence replaces the value
parseCallbackOverwrite(k, value) ==
    LET m == MakeIfNil(opts)
    IN IF HasKey(m, k)
       THEN [ret |-> ErrDuplicateKey, name |-> name,
             opts |-> <<{kv \in m : kv[1] # k} \cup {<<k, value>>}>>]
       ELSE [ret |-> "nil", name |-> name, opts |-> <<m \cup {<<k, value>>}>>]

\* the callback of Parse: func(key, value string) error
parseCallback(k, value) ==
    LET m == MakeIfNil(opts)
    IN IF HasKey(m, k)
       THEN [ret |-> ErrDuplicateKey, name |-> name, opts |-> <<m>>]
       ELSE [ret |-> "nil", name |-> name, opts |-> <<m \cup {<<k, value>>}>>]

\* the callback of ParseName: func(key, value string) error
parseNameCallback(k, value) ==
    IF k = <<>>
    THEN [ret |-> "nil", name |-> value, opts |-> opts]
    ELSE LET m == MakeIfNil(opts)
         IN IF HasKey(m, k)
            THEN [ret |-> ErrDuplicateKey, name |-> name, opts |-> <<m>>]
            ELSE [ret |-> "nil", name |-> name, opts |-> <<m \cup {<<k, value>>}>>]

\* callback(key, value): the closure of Parse or of ParseName, or the
\* caller's callback of ParseFunc, which returns ret and has no state here
callback(k, value, ret) ==
    IF api = "Parse" THEN parseCallback(k, value)
    ELSE IF api = "ParseName" THEN parseNameCallback(k, value)
    ELSE [ret |-> ret, name |-> name, opts |-> opts]

\* deliver with a bug: no callback once an error is latched
deliverUnlessFailed(cnt, k, ks, value, E, ret) ==
    LET r == callback(k, value, ret)
    IN [count |-> cnt, key |-> k, keyStart |-> ks,
        E |-> IF r.ret # "nil" THEN fail(E, ks, k, r.ret) ELSE E,
        calls |-> IF E.err = NilErr
                  THEN Append(calls, [key |-> k, value |-> value, ret |-> r.ret])
                  ELSE calls,
        name |-> r.name, opts |-> r.opts]

\* deliver with a bug: the callback's error is reported at start, where the
\* value begins, not at keyStart
deliverPosValue(cnt, k, ks, value, E, ret) ==
    LET r == callback(k, value, ret)
    IN [count |-> cnt, key |-> k, keyStart |-> ks,
        E |-> IF r.ret # "nil" THEN fail(E, start, k, r.ret) ELSE E,
        calls |-> Append(calls, [key |-> k, value |-> value, ret |-> r.ret]),
        name |-> r.name, opts |-> r.opts]

\* err := callback(key, value); if err != nil { fail(keyStart, key, err) }
\* ret is what the caller's callback returns for this invocation
deliver(cnt, k, ks, value, E, ret) ==
    LET r == callback(k, value, ret)
    IN [count |-> cnt, key |-> k, keyStart |-> ks,
        E |-> IF r.ret # "nil" THEN fail(E, ks, k, r.ret) ELSE E,
        calls |-> Append(calls, [key |-> k, value |-> value, ret |-> r.ret]),
        name |-> r.name, opts |-> r.opts]

\* checkKey with a bug: once an error is latched no item is delivered
checkKeyUnlessFailed(cnt, k, ks, value, E, ret) ==
    IF k = <<>>
    THEN [count |-> cnt, key |-> k, keyStart |-> ks,
          E |-> fail(E, ks, MsgEmptyKey, "nil"), calls |-> calls, name |-> name, opts |-> opts]
    ELSE IF E.err # NilErr
         THEN [count |-> cnt, key |-> k, keyStart |-> ks,
               E |-> E, calls |-> calls, name |-> name, opts |-> opts]
         ELSE deliver(cnt, k, ks, value, E, ret)

\* checkKey with a bug: an empty key is delivered like any other
checkKeyAllowEmpty(cnt, k, ks, value, E, ret) == deliver(cnt, k, ks, value, E, ret)

\* checkKey with a bug: the empty key is reported one byte after keyStart
checkKeyPosAfter(cnt, k, ks, value, E, ret) ==
    IF k = <<>>
    THEN [count |-> cnt, key |-> k, keyStart |-> ks,
          E |-> fail(E, ks + 1, MsgEmptyKey, "nil"), calls |-> calls, name |-> name, opts |-> opts]
    ELSE deliver(cnt, k, ks, value, E, ret)

\* if key == "" { fail(keyStart, "empty key", nil); return }, else the callback
checkKey(cnt, k, ks, value, E, ret) ==
    IF k = <<>>
    THEN [count |-> cnt, key |-> k, keyStart |-> ks,
          E |-> fail(E, ks, MsgEmptyKey, "nil"), calls |-> calls, name |-> name, opts |-> opts]
    ELSE deliver(cnt, k, ks, value, E, ret)

\* isName with a bug: the first item is the name even when it has a colon
isNameDespiteColon(cnt) == cnt = 1 /\ conf.FirstItemIsName

\* if count == 1 && conf.FirstItemIsName && !inValue
isName(cnt) == cnt = 1 /\ conf.FirstItemIsName /\ ~inValue

\* hasText with a bug: an empty item is handled like any other
hasTextAlways(at) == TRUE

\* } else if start < i {: the item tag[start:i] is not empty
hasText(at) == start < at

\* flush := func(i int) of ParseFunc on Configuration c: the new count, key,
\* keyStart, error latch and calls
flushAs(c, E, at, ret) ==
    LET cnt == count + 1
        whole == unquoteTrim(c, Slice(tag, start, at))
    IN IF isName(cnt)
       THEN deliver(cnt, <<>>, start, whole.result, failIf(E, whole, start), ret)
       ELSE IF inValue
            THEN LET k == unquoteTrim(c, key)
                 IN checkKey(cnt, k.result, keyStart, whole.result,
                             failIf(failIf(E, k, keyStart), whole, start), ret)
            ELSE IF hasText(at)
                 THEN checkKey(cnt, whole.result, start, <<>>,
                               failIf(E, whole, start), ret)
                 ELSE [count |-> cnt, key |-> key, keyStart |-> keyStart,
                       E |-> E, calls |-> calls, name |-> name, opts |-> opts]

\* flush(i) of the call on conf
flush(E, at, ret) == flushAs(conf, E, at, ret)

\* the state at the call of ParseFunc(tag, callback), Parse(tag) or
\* ParseName(tag) on conf
Start(T, C, A) ==
    /\ tag \in T
    /\ conf \in C
    /\ api \in A
    /\ pc = "call"
    /\ i = 0
    /\ quoteStart = -1
    /\ nesting = 0
    /\ inValue = FALSE
    /\ start = 0
    /\ key = <<>>
    /\ keyStart = 0
    /\ count = 0
    /\ parseErr = NilErr
    /\ fails = <<>>
    /\ calls = <<>>
    /\ name = <<>>
    /\ opts = NilMap
    /\ text = <<>>
    /\ panic = <<>>
    /\ twin = [err |-> NilErr, log |-> <<>>]
    /\ other = <<>>
    /\ solo = <<>>

Init == Start(TagsOver(Alphabet, MaxLen), Configurations, {"ParseFunc"})

InitEscape == Start(TagsOver(EscapeAlphabet, MaxLen), Configurations, {"ParseFunc"})

\* the tags of SpecTrim, and short tags with brackets
InitTrim ==
    \/ Start(TagsOver(TrimAlphabet, MaxLen), Configurations, {"ParseFunc"})
    \/ Start(TagsOver(Alphabet, MaxShortLen), NestConfigurations, {"ParseFunc"})

\* WithoutName.Parse, WithName.ParseName, and ParseName on WithoutName; and
\* VMihailenco.ParseName on short tags with quotes and brackets
InitParse ==
    \/ Start(TagsOver(ParseAlphabet, MaxParseLen), {WithoutName}, {"Parse", "ParseName"})
    \/ Start(TagsOver(ParseAlphabet, MaxParseLen), {WithName}, {"ParseName"})
    \/ Start(TagsOver(Alphabet, MaxShortLen), {VMihailenco}, {"ParseName"})

\* ParseFunc and Parse on every Configuration, ParseName where it does not
\* panic; and ParseFunc on short tags with brackets
InitCause ==
    \/ Start(TagsOver(CauseAlphabet, MaxLen), Configurations, {"ParseFunc", "Parse"})
    \/ Start(TagsOver(CauseAlphabet, MaxLen), {c \in Configurations : c.FirstItemIsName},
             {"ParseName"})
    \/ Start(TagsOver(Alphabet, MaxShortLen), NestConfigurations, {"ParseFunc"})

\* ParseFunc on short tags under every Configuration
InitShort == Start(TagsOver(FairAlphabet, MaxFairLen), Configurations, {"ParseFunc"})

InitNest == Start(TagsOver(NestAlphabet, MaxNestLen), NestConfigurations, {"ParseFunc"})

\* escapeCase with a bug: the escaped byte is not skipped by the scan
escapeCaseNoSkip ==
    LET E == checkEscape(Latch, i + 1)
    IN /\ i' = i + 1
       /\ parseErr' = E.err
       /\ fails' = E.log
       /\ twin' = checkEscape(twin, i + 1)

\* the escape case of all three switches: i++; checkEscape(i), then the loop's i++
escapeCase ==
    LET E == checkEscape(Latch, i + 1)
    IN /\ i' = i + 2
       /\ parseErr' = E.err
       /\ fails' = E.log
       /\ twin' = checkEscape(twin, i + 1)

\* the value ParseName panics with
ParseNamePanic == "tagparser: ParseName requires a configuration with FirstItemIsName = true"

\* Enter with a bug: ParseName does not check the Configuration
EnterUnchecked ==
    /\ pc = "call"
    /\ pc' = "scan"
    /\ UNCHANGED <<other, solo, tag, conf, api, text, panic, i, quoteStart, nesting, inValue, start,
                   key, keyStart, count, parseErr, fails, calls, name, opts, twin>>

\* the entry: ParseName panics unless conf.FirstItemIsName, and otherwise
\* calls ParseFunc with its callback, as Parse does
Enter ==
    /\ pc = "call"
    /\ IF api = "ParseName" /\ ~conf.FirstItemIsName
       THEN pc' = "panic" /\ panic' = <<ParseNamePanic>>
       ELSE pc' = "scan" /\ UNCHANGED panic
    /\ UNCHANGED <<other, solo, tag, conf, api, text, i, quoteStart, nesting, inValue, start, key,
                   keyStart, count, parseErr, fails, calls, name, opts, twin>>

\* one iteration of the scan loop inside a quoted string (quoteStart >= 0)
ScanInQuote ==
    /\ pc = "scan"
    /\ i < Len(tag)
    /\ quoteStart >= 0
    /\ IF At(tag, i) = BS
       THEN escapeCase /\ UNCHANGED quoteStart
       ELSE /\ i' = i + 1
            /\ quoteStart' = IF At(tag, i) = QT THEN -1 ELSE quoteStart
            /\ UNCHANGED <<parseErr, fails, twin>>
    /\ UNCHANGED <<other, solo, tag, conf, api, text, panic, pc, nesting, inValue, start, key, keyStart, count, calls, name, opts>>

\* ScanNested with a bug: a quote inside brackets opens a quoted string
ScanNestedQuote ==
    /\ pc = "scan"
    /\ i < Len(tag)
    /\ quoteStart < 0
    /\ nesting > 0
    /\ IF At(tag, i) = BS
       THEN escapeCase /\ UNCHANGED <<nesting, quoteStart>>
       ELSE /\ i' = i + 1
            /\ nesting' = IF At(tag, i) \in CloseBrackets THEN nesting - 1 ELSE nesting
            /\ quoteStart' = IF At(tag, i) = QT THEN i ELSE quoteStart
            /\ UNCHANGED <<parseErr, fails, twin>>
    /\ UNCHANGED <<other, solo, tag, conf, api, text, panic, pc, inValue, start, key, keyStart, count, calls, name, opts>>

\* one iteration of the scan loop inside brackets (nesting > 0)
ScanNested ==
    /\ pc = "scan"
    /\ i < Len(tag)
    /\ quoteStart < 0
    /\ nesting > 0
    /\ IF At(tag, i) = BS
       THEN escapeCase /\ UNCHANGED nesting
       ELSE /\ i' = i + 1
            /\ nesting' = IF At(tag, i) \in CloseBrackets THEN nesting - 1 ELSE nesting
            /\ UNCHANGED <<parseErr, fails, twin>>
    /\ UNCHANGED <<other, solo, tag, conf, api, text, panic, pc, quoteStart, inValue, start, key, keyStart, count, calls, name, opts>>

\* case ',': flush(i); start = i + 1; inValue = false
commaCase(ret) ==
    LET f == flush(Latch, i, ret)
    IN /\ count' = f.count
       /\ key' = f.key
       /\ keyStart' = f.keyStart
       /\ parseErr' = f.E.err
       /\ fails' = f.E.log
       /\ calls' = f.calls
       /\ name' = f.name
       /\ opts' = f.opts
       /\ twin' = flushAs(Counterpart, twin, i, ret).E
       /\ start' = i + 1
       /\ inValue' = FALSE
       /\ i' = i + 1
       /\ UNCHANGED <<quoteStart, nesting>>

\* colonCase with a bug: a colon inside a value does not advance the scan
colonCaseStuck ==
    /\ IF ~inValue
       THEN /\ key' = Slice(tag, start, i)
            /\ keyStart' = start
            /\ start' = i + 1
            /\ inValue' = TRUE
            /\ i' = i + 1
       ELSE UNCHANGED <<key, keyStart, start, inValue, i>>
    /\ UNCHANGED <<quoteStart, nesting, count, parseErr, fails, calls, name, opts, twin>>

\* colonCase with a bug: every top-level colon starts the value anew
colonCaseEvery ==
    /\ key' = Slice(tag, start, i)
    /\ keyStart' = start
    /\ start' = i + 1
    /\ inValue' = TRUE
    /\ i' = i + 1
    /\ UNCHANGED <<quoteStart, nesting, count, parseErr, fails, calls, name, opts, twin>>

\* case ':': if !inValue { key = tag[start:i]; keyStart = start; start = i + 1; inValue = true }
colonCase ==
    /\ IF ~inValue
       THEN /\ key' = Slice(tag, start, i)
            /\ keyStart' = start
            /\ start' = i + 1
            /\ inValue' = TRUE
       ELSE UNCHANGED <<key, keyStart, start, inValue>>
    /\ i' = i + 1
    /\ UNCHANGED <<quoteStart, nesting, count, parseErr, fails, calls, name, opts, twin>>

\* one iteration of the scan loop at the top level
ScanTop ==
    /\ pc = "scan"
    /\ i < Len(tag)
    /\ quoteStart < 0
    /\ nesting = 0
    /\ LET c == At(tag, i)
       IN IF c = BS
          THEN escapeCase
               /\ UNCHANGED <<quoteStart, nesting, inValue, start, key, keyStart, count, calls, name, opts>>
          ELSE IF c = ":"
               THEN colonCase
               ELSE IF c = ","
                    THEN \E ret \in CallbackReturns : commaCase(ret)
                    ELSE /\ i' = i + 1
                         /\ quoteStart' = IF c = QT THEN i ELSE quoteStart
                         /\ nesting' = IF c \in OpenBrackets /\ conf.AllowParenEscape
                                       THEN nesting + 1 ELSE nesting
                         /\ UNCHANGED <<inValue, start, key, keyStart, count,
                                        parseErr, fails, calls, name, opts, twin>>
    /\ UNCHANGED <<other, solo, tag, conf, api, text, panic, pc>>

\* unterminated with a bug: brackets left open at the end of the tag are an
\* error as well
unterminatedOrUnclosed(E) ==
    IF quoteStart >= 0 THEN fail(E, quoteStart, MsgUnterminatedQuote, "nil")
    ELSE IF nesting > 0 THEN fail(E, Len(tag) - 1, MsgUnterminatedQuote, "nil")
    ELSE E

\* unterminated with a bug: the error is reported at the last byte of the tag
unterminatedAtEnd(E) ==
    IF quoteStart >= 0 THEN fail(E, Len(tag) - 1, MsgUnterminatedQuote, "nil") ELSE E

\* if quoteStart >= 0 { fail(quoteStart, "unterminated quote", nil) }
unterminated(E) ==
    IF quoteStart >= 0 THEN fail(E, quoteStart, MsgUnterminatedQuote, "nil") ELSE E

\* after the loop: the unterminated quote, the last flush, return parseErr
Finish ==
    /\ pc = "scan"
    /\ i >= Len(tag)
    /\ \E ret \in CallbackReturns :
          LET E == unterminated(Latch)
          IN IF start < Len(tag) \/ inValue
             THEN LET f == flush(E, Len(tag), ret)
                  IN /\ count' = f.count
                     /\ key' = f.key
                     /\ keyStart' = f.keyStart
                     /\ parseErr' = f.E.err
                     /\ fails' = f.E.log
                     /\ calls' = f.calls
                     /\ name' = f.name
                     /\ opts' = f.opts
                     /\ twin' = flushAs(Counterpart, unterminated(twin), Len(tag), ret).E
             ELSE /\ parseErr' = E.err
                  /\ fails' = E.log
                  /\ twin' = unterminated(twin)
                  /\ UNCHANGED <<count, key, keyStart, calls, name, opts>>
    /\ pc' = "done"
    /\ UNCHANGED <<other, solo, tag, conf, api, text, panic, i, quoteStart, nesting, inValue, start>>

\* a call of Error() on an Error value
ErrorString ==
    /\ pc = "error"
    /\ text' = Error(parseErr[1])
    /\ pc' = "text"
    /\ UNCHANGED <<other, solo, tag, conf, api, panic, i, quoteStart, nesting, inValue, start, key,
                   keyStart, count, parseErr, fails, calls, name, opts, twin>>

Next == Enter \/ ScanInQuote \/ ScanNested \/ ScanTop \/ Finish

Spec == Init /\ [][Next]_vars

SpecEscape == InitEscape /\ [][Next]_vars

SpecNest == InitNest /\ [][Next]_vars

SpecTrim == InitTrim /\ [][Next]_vars

SpecParse == InitParse /\ [][Next]_vars

SpecCause == InitCause /\ [][Next]_vars

(***************************************************************************)
(* Concurrent calls.  All the state of a call is in variables declared     *)
(* inside ParseFunc, Parse and ParseName (tagparser.go:63-67, 86,          *)
(* 127-139, 194-195) and inside unquoteTrim; the Configuration is reached  *)
(* through a pointer and only read, as is the table asciiSpace.  The       *)
(* variables of the module are the locals of the call that takes the next  *)
(* step; other holds the locals of a second call, suspended between two of *)
(* its steps, and Switch lets the two calls change places, so that their   *)
(* steps interleave in every order.  A call is first run alone (solo       *)
(* keeps what it left) and then again, with the same tag, next to a call   *)
(* on the same Configuration.                                              *)
(***************************************************************************)
Locals ==
    [tag |-> tag, api |-> api, pc |-> pc, i |-> i, quoteStart |-> quoteStart,
     nesting |-> nesting, inValue |-> inValue, start |-> start, key |-> key,
     keyStart |-> keyStart, count |-> count, parseErr |-> parseErr, fails |-> fails,
     calls |-> calls, name |-> name, opts |-> opts, text |-> text, panic |-> panic,
     twin |-> twin]

\* the locals at the entry of a call of a on the tag t
Entry(t, a) ==
    [tag |-> t, api |-> a, pc |-> "call", i |-> 0, quoteStart |-> -1,
     nesting |-> 0, inValue |-> FALSE, start |-> 0, key |-> <<>>,
     keyStart |-> 0, count |-> 0, parseErr |-> NilErr, fails |-> <<>>,
     calls |-> <<>>, name |-> <<>>, opts |-> NilMap, text |-> <<>>, panic |-> <<>>,
     twin |-> [err |-> NilErr, log |-> <<>>]]

\* the call with the locals L is the one that takes the next step
Resume(L) ==
    /\ tag' = L.tag
    /\ api' = L.api
    /\ pc' = L.pc
    /\ i' = L.i
    /\ quoteStart' = L.quoteStart
    /\ nesting' = L.nesting
    /\ inValue' = L.inValue
    /\ start' = L.start
    /\ key' = L.key
    /\ keyStart' = L.keyStart
    /\ count' = L.count
    /\ parseErr' = L.parseErr
    /\ fails' = L.fails
    /\ calls' = L.calls
    /\ name' = L.name
    /\ opts' = L.opts
    /\ text' = L.text
    /\ panic' = L.panic
    /\ twin' = L.twin

\* after the call alone has returned: the same call is made again, and a
\* second call on the same Configuration is made next to it
Fork ==
    /\ pc \in {"done", "panic"}
    /\ solo = <<>>
    /\ other = <<>>
    /\ solo' = <<Locals>>
    /\ \E t \in TagsOver(ConcAlphabet, MaxConcLen) :
          other' = <<[call |-> Entry(t, api), again |-> FALSE]>>
    /\ Resume(Entry(tag, api))
    /\ UNCHANGED conf

\* Switch with a bug: parseErr is one variable shared by the two calls
SwitchSharedErr ==
    /\ other # <<>>
    /\ other' = <<[call |-> Locals, again |-> ~other[1].again]>>
    /\ Resume([other[1].call EXCEPT !.parseErr = parseErr])
    /\ UNCHANGED <<conf, solo>>

\* the scheduler: the running call is suspended and the other one runs
Switch ==
    /\ other # <<>>
    /\ other' = <<[call |-> Locals, again |-> ~other[1].again]>>
    /\ Resume(other[1].call)
    /\ UNCHANGED <<conf, solo>>

\* Parse on the three Configurations of the package, ParseName on the two
\* with FirstItemIsName
InitConc ==
    \/ Start(TagsOver(ConcAlphabet, MaxConcLen), {WithName, WithoutName, VMihailenco},
             {"Parse"})
    \/ Start(TagsOver(ConcAlphabet, MaxConcLen), {WithName, VMihailenco}, {"ParseName"})

NextConc == Next \/ Fork \/ Switch

SpecConc == InitConc /\ [][NextConc]_vars

\* the loop runs and the callback returns: a step that can be taken is taken
SpecFair == InitShort /\ [][Next]_vars /\ WF_vars(Next)

\* the Error values: every combination of a Msg (empty, a key, a message), a
\* Cause (nil, the callback's error, ErrDuplicateKey) and a Pos up to MaxPos
ErrorValues ==
    [Tag : {<<"a">>}, Pos : 0..MaxPos,
     Msg : {<<>>, <<"a">>, <<"a", "b">>, MsgEmptyKey, MsgInvalidQuote},
     Cause : {"nil", "errCallback", ErrDuplicateKey}]

InitError ==
    /\ tag = <<"a">>
    /\ conf = WithName
    /\ api = "ParseFunc"
    /\ pc = "error"
    /\ i = 0
    /\ quoteStart = -1
    /\ nesting = 0
    /\ inValue = FALSE
    /\ start = 0
    /\ key = <<>>
    /\ keyStart = 0
    /\ count = 0
    /\ \E e \in ErrorValues : parseErr = <<e>>
    /\ fails = <<>>
    /\ calls = <<>>
    /\ name = <<>>
    /\ opts = NilMap
    /\ text = <<>>
    /\ panic = <<>>
    /\ twin = [err |-> NilErr, log |-> <<>>]
    /\ other = <<>>
    /\ solo = <<>>

SpecError == InitError /\ [][ErrorString]_vars

\* key, errMsg, errPos = conf.unquoteTrim(key); if errMsg != "" { fail(...) }:
\* a call of unquoteTrim on its own, on the text the call before it returned
UnquoteTrimKey ==
    /\ pc = "norm"
    /\ count < MaxApply
    /\ LET k == unquoteTrim(conf, key)
           E == failIf(Latch, k, keyStart)
       IN /\ key' = k.result
          /\ parseErr' = E.err
          /\ fails' = E.log
    /\ count' = count + 1
    /\ UNCHANGED <<other, solo, tag, conf, api, pc, text, panic, i, quoteStart, nesting, inValue, start,
                   keyStart, calls, name, opts, twin>>

\* the arguments of unquoteTrim: the substring from offset 0 or 1 on of every
\* tag up to MaxLen bytes, as the key tag[keyStart:], under every Configuration
InitNorm ==
    /\ tag \in TagsOver(Alphabet, MaxLen)
    /\ conf \in Configurations
    /\ api = "ParseFunc"
    /\ pc = "norm"
    /\ i = 0
    /\ quoteStart = -1
    /\ nesting = 0
    /\ inValue = FALSE
    /\ start = 0
    /\ keyStart \in {k \in 0..1 : k <= Len(tag)}
    /\ key = Slice(tag, keyStart, Len(tag))
    /\ count = 0
    /\ parseErr = NilErr
    /\ fails = <<>>
    /\ calls = <<>>
    /\ name = <<>>
    /\ opts = NilMap
    /\ text = <<>>
    /\ panic = <<>>
    /\ twin = [err |-> NilErr, log |-> <<>>]
    /\ other = <<>>
    /\ solo = <<>>

SpecNorm == InitNorm /\ [][UnquoteTrimKey]_vars

(***************************************************************************)
(* The items of a tag, stated from the syntax instead of the scan loop: a  *)
(* byte is escaped when an unescaped backslash precedes it; a byte is at   *)
(* the top level when it is neither escaped, nor inside a quoted string,   *)
(* nor inside brackets; the items are the pieces between the top-level     *)
(* commas.  Depth is the depth the scanner keeps: brackets open at the top *)
(* level and close at the next unescaped closing bracket.                  *)
(***************************************************************************)
RECURSIVE Escaped(_, _)
Escaped(t, k) == k > 0 /\ At(t, k - 1) = BS /\ ~Escaped(t, k - 1)

\* the byte at k starts an escape sequence
EscapeAt(t, k) == k < Len(t) /\ At(t, k) = BS /\ ~Escaped(t, k)

\* the state in which byte k of t is read: "top", "quote" or "nest"
RECURSIVE ModeAt(_, _, _)
ModeAt(c, t, k) ==
    IF k = 0 THEN "top"
    ELSE LET m == ModeAt(c, t, k - 1)
             b == At(t, k - 1)
         IN IF Escaped(t, k - 1) \/ b = BS THEN m
            ELSE IF m = "quote" THEN (IF b = QT THEN "top" ELSE "quote")
            ELSE IF m = "nest" THEN (IF b \in CloseBrackets THEN "top" ELSE "nest")
            ELSE IF b = QT THEN "quote"
            ELSE IF b \in OpenBrackets /\ c.AllowParenEscape THEN "nest"
            ELSE "top"

\* byte k of t is the byte b, unescaped, unquoted and at depth 0
TopLevel(c, t, k, b) == At(t, k) = b /\ ~Escaped(t, k) /\ ModeAt(c, t, k) = "top"

Min(S) == CHOOSE x \in S : \A y \in S : x <= y

\* the end of the item that starts at s: the next top-level comma, or the end
ItemEnd(c, t, s) ==
    Min({k \in s..(Len(t) - 1) : TopLevel(c, t, k, ",")} \cup {Len(t)})

\* the key/value colon of the item t[s:e], or e when it has none
ItemColon(c, t, s, e) ==
    Min({k \in s..(e - 1) : TopLevel(c, t, k, ":")} \cup {e})

Norm(c, s) == unquoteTrim(c, s).result

\* what the item t[s:e] delivers: a sequence of zero or one (key, value) pairs
ItemPairs(c, t, s, e) ==
    LET p == ItemColon(c, t, s, e)
    IN IF s = 0 /\ c.FirstItemIsName /\ p = e
       THEN << <<(<<>>), Norm(c, Slice(t, s, e))>> >>
       ELSE LET k == Norm(c, Slice(t, s, p))
                v == IF p < e THEN Norm(c, Slice(t, p + 1, e)) ELSE <<>>
            IN IF k = <<>> THEN <<>> ELSE << <<k, v>> >>

\* the pairs of the items of t from offset s on, left to right; what follows
\* the last comma is an item only when it is not empty
RECURSIVE ItemsFrom(_, _, _)
ItemsFrom(c, t, s) ==
    LET e == ItemEnd(c, t, s)
    IN IF e = Len(t)
       THEN (IF s < e THEN ItemPairs(c, t, s, e) ELSE <<>>)
       ELSE ItemPairs(c, t, s, e) \o ItemsFrom(c, t, e + 1)

RecognizedItems(c, t) == ItemsFrom(c, t, 0)

\* the (key, value) pairs the callback has received so far
Delivered == [k \in 1..Len(calls) |-> <<calls[k].key, calls[k].value>>]

(***************************************************************************)
(* C1  Best-effort delivery: when ParseFunc returns, the whole tag has     *)
(* been scanned and the callback has received, in left-to-right order and  *)
(* once each, the pair of every recognized item of the tag; the pairs are  *)
(* a function of the tag and the Configuration alone, whatever the         *)
(* callback returned and whatever error was latched on the way.            *)
(***************************************************************************)
BestEffortDelivery ==
    pc = "done" =>
        /\ i >= Len(tag)
        /\ Delivered = RecognizedItems(conf, tag)

\* a parse whose first callback invocation failed, that raised a syntax
\* error after it, and that still delivered a later item
BestEffortWitness ==
    /\ pc = "done"
    /\ Len(calls) >= 2
    /\ calls[1].ret # "nil"
    /\ fails # <<>>
    /\ fails[1].Cause # "nil"
    /\ \E k \in 2..Len(fails) : fails[k].Cause = "nil"

(***************************************************************************)
(* C2  First error wins: at every point of a parse the latched error is    *)
(* nil exactly when fail was never called, and otherwise it is the error   *)
(* given to the first call of fail, with its Tag, Pos, Msg and Cause: no   *)
(* later failure changes it, so ParseFunc returns at most that one error.  *)
(***************************************************************************)
FirstErrorWins ==
    /\ Len(parseErr) <= 1
    /\ parseErr = IF fails = <<>> THEN NilErr ELSE <<fails[1]>>

\* a finished parse in which fail was called three times or more, a later
\* call with an error that differs from the first in every failure class
FirstErrorWinsWitness ==
    /\ pc = "done"
    /\ Len(fails) >= 3
    /\ \E k \in 2..Len(fails) : fails[k].Cause # fails[1].Cause
    /\ \E k \in 2..Len(fails) : fails[k].Msg # fails[1].Msg /\ fails[k].Pos # fails[1].Pos

(***************************************************************************)
(* C3  Error position: every error given to fail, and so the error that    *)
(* ParseFunc returns, carries the tag being parsed as Tag and a Pos that   *)
(* is a byte offset of the tag, 0 <= Pos < len(tag), at every failure site *)
(* and under every Configuration.                                          *)
(***************************************************************************)
InTag(e) == e.Tag = tag /\ 0 <= e.Pos /\ e.Pos < Len(tag)

ErrorPosInTag ==
    /\ \A k \in 1..Len(fails) : InTag(fails[k])
    /\ \A k \in 1..Len(parseErr) : InTag(parseErr[k])

\* a finished parse that raised an unterminated escape at the last byte, an
\* empty key and a callback failure
ErrorPosWitness ==
    /\ pc = "done"
    /\ \E k \in 1..Len(fails) :
          fails[k].Msg = MsgUnterminatedEscape /\ fails[k].Pos = Len(tag) - 1
    /\ \E k \in 1..Len(fails) : fails[k].Msg = MsgEmptyKey
    /\ \E k \in 1..Len(fails) : fails[k].Cause # "nil"

(***************************************************************************)
(* C4  Name rule: with FirstItemIsName set and a non-empty tag, a first    *)
(* item without key/value colon (unescaped, unquoted, at depth 0 of the    *)
(* scanner) is delivered first, as ("", normalized first item); a first    *)
(* item with such a colon is treated as a normal (key, value) item, and    *)
(* the callback then never receives an empty key in that parse.            *)
(***************************************************************************)
NameRule ==
    (pc = "done" /\ conf.FirstItemIsName /\ tag # <<>>) =>
        LET e == ItemEnd(conf, tag, 0)
            p == ItemColon(conf, tag, 0, e)
        IN IF p = e
           THEN /\ calls # <<>>
                /\ Delivered[1] = <<(<<>>), Norm(conf, Slice(tag, 0, e))>>
           ELSE /\ \A k \in 1..Len(calls) : calls[k].key # <<>>
                /\ Norm(conf, Slice(tag, 0, p)) # <<>> =>
                      /\ calls # <<>>
                      /\ Delivered[1] = <<Norm(conf, Slice(tag, 0, p)),
                                          Norm(conf, Slice(tag, p + 1, e))>>

\* a finished parse under FirstItemIsName whose first item is a key:value
\* pair and whose second item has no colon: two calls, none for a name
NameRuleWitness ==
    /\ pc = "done"
    /\ conf.FirstItemIsName
    /\ ItemColon(conf, tag, 0, ItemEnd(conf, tag, 0)) < ItemEnd(conf, tag, 0)
    /\ ItemEnd(conf, tag, 0) < Len(tag)
    /\ Len(calls) = 2
    /\ calls[2].value = <<>>

(***************************************************************************)
(* C5  Non-empty key: the callback receives an empty key at most once,     *)
(* only as its first invocation and only when FirstItemIsName is set; with *)
(* FirstItemIsName unset it never receives an empty key.                   *)
(***************************************************************************)
NonEmptyKey ==
    \A k \in 1..Len(calls) :
        calls[k].key = <<>> => (k = 1 /\ conf.FirstItemIsName)

\* a finished parse with FirstItemIsName unset of a tag with a key written
\* as an empty quoted string: "empty key" is raised, a later item is delivered
NonEmptyKeyWitness ==
    /\ pc = "done"
    /\ ~conf.FirstItemIsName
    /\ Len(tag) >= 2 /\ At(tag, 0) = QT /\ At(tag, 1) = QT
    /\ \E k \in 1..Len(fails) : fails[k].Msg = MsgEmptyKey /\ fails[k].Pos = 0
    /\ calls # <<>>

(***************************************************************************)
(* C6  Key/value split: every item handed to the callback was split at its *)
(* first colon that is unescaped, outside quotes and at depth 0 of the     *)
(* scanner: the key is the normalized text before that colon, the value    *)
(* the normalized text after it (later colons included), the colon is in   *)
(* neither; an item without such a colon is delivered as (normalized item, *)
(* ""), or as ("", normalized item) when it is the name.                   *)
(***************************************************************************)
Max(S) == CHOOSE x \in S : \A y \in S : x >= y

\* the start of the item that ends at e: after the last top-level comma before e
ItemStart(c, t, e) == Max({k + 1 : k \in {j \in 0..(e - 1) : TopLevel(c, t, j, ",")}} \cup {0})

SplitAt(c, e) ==
    LET s == ItemStart(conf, tag, e)
        p == ItemColon(conf, tag, s, e)
    IN IF p < e
       THEN /\ c.key = Norm(conf, Slice(tag, s, p))
            /\ c.value = Norm(conf, Slice(tag, p + 1, e))
       ELSE IF c.key = <<>>
            THEN c.value = Norm(conf, Slice(tag, s, e))
            ELSE c.key = Norm(conf, Slice(tag, s, e)) /\ c.value = <<>>

KeyValueSplit ==
    [][calls' # calls =>
          /\ Len(calls') = Len(calls) + 1
          /\ SplitAt(calls'[Len(calls')], IF pc' = "done" THEN Len(tag) ELSE i)]_vars

\* a finished parse of a tag of plain bytes and colons that delivered a
\* value with a colon in it: a later colon of the item, kept as content
KeyValueSplitWitness ==
    /\ pc = "done"
    /\ \A k \in 1..Len(tag) : tag[k] \in {"a", ":"}
    /\ \E k \in 1..Len(calls) : IndexByte(calls[k].value, ":")

(***************************************************************************)
(* C7  Quoted strings are literal: under every Configuration a name, key   *)
(* or value written as one single-quoted string 'X', X without quote and   *)
(* backslash (and not empty when it is a key), is delivered as exactly X   *)
(* and raises no error, whatever commas, colons, whitespace and brackets   *)
(* X holds.  The tags are 'X' and a:'X'.                                   *)
(***************************************************************************)
NoSyntaxError == \A k \in 1..Len(fails) : fails[k].Cause # "nil"

PlainQuoted(X) == ~IndexByte(X, QT) /\ ~IndexByte(X, BS)

QuotedIsLiteral ==
    (pc = "done" /\ Len(tag) >= 2 /\ At(tag, Len(tag) - 1) = QT) =>
        /\ (At(tag, 0) = QT /\ PlainQuoted(Slice(tag, 1, Len(tag) - 1))) =>
              LET X == Slice(tag, 1, Len(tag) - 1)
              IN IF conf.FirstItemIsName
                 THEN NoSyntaxError /\ Delivered = << <<(<<>>), X>> >>
                 ELSE X # <<>> => (NoSyntaxError /\ Delivered = << <<X, (<<>>)>> >>)
        /\ (Len(tag) >= 4 /\ Slice(tag, 0, 3) = <<"a", ":", QT>>
               /\ PlainQuoted(Slice(tag, 3, Len(tag) - 1))) =>
              /\ NoSyntaxError
              /\ Delivered = << <<(<<"a">>), Slice(tag, 3, Len(tag) - 1)>> >>

(***************************************************************************)
(* C8  Bracket quoting: with AllowParenEscape set, a value that is one     *)
(* properly matched bracketed text B (the bracket that opens B is closed   *)
(* by its last byte; brackets may nest inside) is delivered verbatim as    *)
(* one value and raises no error: no comma, colon or quote inside B ends   *)
(* the item, splits it or quotes.  The tags are B, as the name, and a:B.   *)
(***************************************************************************)
\* the number of brackets of B still open after its first k bytes
RECURSIVE OpenAfter(_, _)
OpenAfter(B, k) ==
    IF k = 0 THEN 0
    ELSE OpenAfter(B, k - 1)
         + (IF B[k] \in OpenBrackets THEN 1 ELSE IF B[k] \in CloseBrackets THEN -1 ELSE 0)

Balanced(B) ==
    /\ Len(B) >= 2
    /\ ~IndexByte(B, BS)
    /\ \A k \in 1..(Len(B) - 1) : OpenAfter(B, k) >= 1
    /\ OpenAfter(B, Len(B)) = 0

BracketQuoting ==
    (pc = "done" /\ conf.AllowParenEscape) =>
        /\ (conf.FirstItemIsName /\ Balanced(tag)) =>
              (NoSyntaxError /\ Delivered = << <<(<<>>), tag>> >>)
        /\ (Len(tag) >= 2 /\ Slice(tag, 0, 2) = <<"a", ":">>
               /\ Balanced(Slice(tag, 2, Len(tag)))) =>
              (NoSyntaxError /\ Delivered = << <<(<<"a">>), Slice(tag, 2, Len(tag))>> >>)

(***************************************************************************)
(* C9  Escape semantics: a backslash followed by a byte c that is neither  *)
(* letter nor digit stands for the plain byte c.  Stated as a relation     *)
(* between two tags: the parse of a tag with such an escape at offset p    *)
(* delivers what the tag with the two bytes replaced by one plain byte (a  *)
(* digit that the tag does not use) delivers, with c in the place of that  *)
(* byte; and no escape error is raised at p.  A plain byte is neither      *)
(* separator, colon, quote, bracket nor whitespace, in any scanner state.  *)
(***************************************************************************)
Marker == "1"

ReplacePair(t, p, m) == Slice(t, 0, p) \o <<m>> \o Slice(t, p + 2, Len(t))

SubstBytes(s, m, c) == [k \in 1..Len(s) |-> IF s[k] = m THEN c ELSE s[k]]

SubstPairs(ps, m, c) ==
    [k \in 1..Len(ps) |-> <<SubstBytes(ps[k][1], m, c), SubstBytes(ps[k][2], m, c)>>]

\* an escape error was raised at offset pos
Raised(pos, msg) ==
    \E k \in 1..Len(fails) :
        fails[k].Pos = pos /\ fails[k].Msg = msg /\ fails[k].Cause = "nil"

\* the escape sequences of the tag whose second byte is neither letter nor digit
ValidEscapes ==
    {p \in 0..(Len(tag) - 2) : EscapeAt(tag, p) /\ At(tag, p + 1) \notin Letters \cup Digits}

EscapeSemantics ==
    (pc = "done" /\ ~IndexByte(tag, Marker)) =>
        \A p \in ValidEscapes :
            /\ ~Raised(p, MsgUnterminatedEscape)
            /\ ~Raised(p + 1, MsgInvalidEscape)
            /\ Delivered = SubstPairs(RecognizedItems(conf, ReplacePair(tag, p, Marker)),
                                      Marker, At(tag, p + 1))

\* a finished parse with an escaped closing bracket inside brackets: the
\* bracket is delivered in a value and the brackets stay open
EscapeSemanticsWitness ==
    /\ pc = "done"
    /\ calls # <<>>
    /\ \E p \in ValidEscapes :
          ModeAt(conf, tag, p) = "nest" /\ At(tag, p + 1) \in CloseBrackets
             /\ \E k \in 1..Len(calls) : IndexByte(calls[k].value, At(tag, p + 1))

(***************************************************************************)
(* C10  Escape validation: in every scanner state a backslash followed by  *)
(* a letter or digit raises "invalid escape character" at the offset of    *)
(* that byte, and a backslash that is the last byte of the tag raises      *)
(* "unterminated escape sequence" at its own offset.  The scan goes on and *)
(* the output is that of the tag without the backslash: always for the     *)
(* invalid escape, and for the dangling backslash when the byte before it  *)
(* is not whitespace (which the backslash would shield from trimming).     *)
(***************************************************************************)
Remove(t, p) == Slice(t, 0, p) \o Slice(t, p + 1, Len(t))

Whitespace == {"\t", "\n", VT, "\f", "\r", " "}

\* the text s without its leading whitespace and its unescaped trailing whitespace
Kept(s) ==
    LET L == Min({k \in 0..(Len(s) - 1) : At(s, k) \notin Whitespace} \cup {Len(s)})
        R == Min({k \in L..Len(s) :
                    \A j \in k..(Len(s) - 1) : At(s, j) \in Whitespace /\ ~Escaped(s, j)})
    IN Slice(s, L, R)

WsOnly(s) == SelectSeq(s, LAMBDA b : b \in Whitespace)

\* d is what the text s of the tag is delivered as
TrimmedFrom(d, s) ==
    LET K == Kept(s)
    IN /\ d = Norm(conf, K)
       /\ WsOnly(d) = WsOnly(K)
       /\ (d # <<>> /\ d[1] \in Whitespace) => K[1] \in {BS, QT}
       /\ (d # <<>> /\ d[Len(d)] \in Whitespace) =>
              (K[Len(K)] \in {BS, QT} \/ Escaped(K, Len(K) - 1))

TrimAt(c, e) ==
    LET s == ItemStart(conf, tag, e)
        p == ItemColon(conf, tag, s, e)
    IN IF p < e
       THEN /\ TrimmedFrom(c.key, Slice(tag, s, p))
            /\ TrimmedFrom(c.value, Slice(tag, p + 1, e))
       ELSE IF c.key = <<>>
            THEN TrimmedFrom(c.value, Slice(tag, s, e))
            ELSE TrimmedFrom(c.key, Slice(tag, s, e)) /\ c.value = <<>>

WhitespaceTrimming ==
    [][calls' # calls =>
          TrimAt(calls'[Len(calls')], IF pc' = "done" THEN Len(tag) ELSE i)]_vars

\* a finished parse of a tag that starts and ends with a space and delivered
\* a text that is one tab or starts with a tab: the escaped or quoted tab is
\* kept, the spaces around it are trimmed
WhitespaceTrimmingWitness ==
    /\ pc = "done"
    /\ Len(tag) >= 3 /\ At(tag, 0) = " " /\ At(tag, Len(tag) - 1) = " "
    /\ ~Escaped(tag, Len(tag) - 1)
    /\ \E k \in 1..Len(calls) :
          \/ calls[k].value # <<>> /\ calls[k].value[1] = "\t"
          \/ calls[k].key # <<>> /\ calls[k].key[1] = "\t"

(***************************************************************************)
(* C12  Empty-item skipping: the step that ends a zero-length item (at a   *)
(* top-level comma that directly follows a top-level comma or starts the   *)
(* tag, or at the end of a tag that is empty or ends with a top-level      *)
(* comma) invokes no callback and raises no error; the one exception is    *)
(* the comma at offset 0 under FirstItemIsName, where the empty name is    *)
(* delivered as ("", "").                                                  *)
(***************************************************************************)
\* the scan is about to end the item at offset e, and the item is empty
ZeroLengthItemEnds(e) ==
    /\ pc = "scan"
    /\ ItemStart(conf, tag, e) = e
    /\ IF e < Len(tag) THEN i = e /\ TopLevel(conf, tag, e, ",") ELSE i >= Len(tag)

EmptyItemSkipping ==
    [][\A e \in 0..Len(tag) :
          ZeroLengthItemEnds(e) =>
              IF e = 0 /\ Len(tag) > 0 /\ conf.FirstItemIsName
              THEN /\ Len(calls') = 1
                   /\ Delivered' = << <<(<<>>), (<<>>)>> >>
              ELSE calls' = calls /\ fails' = fails /\ parseErr' = parseErr]_vars

\* a finished parse with FirstItemIsName unset of a tag with a leading comma,
\* two consecutive commas and a trailing comma: one item delivered, no error
EmptyItemSkippingWitness ==
    /\ pc = "done"
    /\ ~conf.FirstItemIsName
    /\ Len(tag) = 4 /\ At(tag, 0) = "," /\ At(tag, 1) = "," /\ At(tag, 3) = ","
    /\ Len(calls) = 1
    /\ fails = <<>>

(***************************************************************************)
(* C13  Empty key: the step that ends an item of one byte or more that is  *)
(* not the name and whose key (the text before its key/value colon, or the *)
(* whole item when it has none) is empty after normalization raises        *)
(* "empty key" with Pos the offset of the first byte of the item, as the   *)
(* last error of that step, and invokes no callback; the scan goes on.     *)
(* (A zero-length item has no first byte: it is skipped, see C12.)         *)
(***************************************************************************)
\* the scan is about to end the item tag[s:e]
ItemEnds(s, e) ==
    /\ pc = "scan"
    /\ s = ItemStart(conf, tag, e)
    /\ IF e < Len(tag) THEN i = e /\ TopLevel(conf, tag, e, ",") ELSE i >= Len(tag)

IsNameItem(s, e) == s = 0 /\ conf.FirstItemIsName /\ ItemColon(conf, tag, s, e) = e

EmptyKeyError(s) == [Tag |-> tag, Pos |-> s, Msg |-> MsgEmptyKey, Cause |-> "nil"]

EmptyKey ==
    [][\A e \in 0..Len(tag) : \A s \in 0..(e - 1) :
          (/\ ItemEnds(s, e)
           /\ ~IsNameItem(s, e)
           /\ Norm(conf, Slice(tag, s, ItemColon(conf, tag, s, e))) = <<>>) =>
              /\ calls' = calls
              /\ Len(fails') > Len(fails)
              /\ fails'[Len(fails')] = EmptyKeyError(s)
              /\ IF e < Len(tag) THEN pc' = "scan" /\ i' = e + 1 ELSE pc' = "done"]_vars

\* a finished parse whose first item is made of whitespace only and is not
\* the name: "empty key" at offset 0, and a later item is delivered
EmptyKeyWitness ==
    /\ pc = "done"
    /\ ~conf.FirstItemIsName
    /\ Len(tag) >= 3 /\ At(tag, 0) = " " /\ At(tag, 1) = ","
    /\ parseErr = <<EmptyKeyError(0)>>
    /\ Len(calls) = 1

(***************************************************************************)
(* C14  Duplicate keys in Parse and ParseName: when the call returns, the  *)
(* map holds, for every key, the value of the first item of the tag with   *)
(* that key (the name of ParseName is not a key), whatever later items     *)
(* with the same key say and wherever they stand; every later occurrence   *)
(* raises an error with Cause ErrDuplicateKey, Msg the key and Pos the     *)
(* start offset of that item, and these are the only errors with a Cause;  *)
(* the first of them is the returned error unless another error was        *)
(* latched before it.                                                      *)
(***************************************************************************)
\* the start offset of the item t[s:e], when it delivers a pair
ItemOffset(c, t, s, e) == IF ItemPairs(c, t, s, e) = <<>> THEN <<>> ELSE <<s>>

\* the start offsets of the items of RecognizedItems(c, t), in the same order
RECURSIVE OffsetsFrom(_, _, _)
OffsetsFrom(c, t, s) ==
    LET e == ItemEnd(c, t, s)
    IN IF e = Len(t)
       THEN (IF s < e THEN ItemOffset(c, t, s, e) ELSE <<>>)
       ELSE ItemOffset(c, t, s, e) \o OffsetsFrom(c, t, e + 1)

ItemOffsets(c, t) == OffsetsFrom(c, t, 0)

\* the pairs of D that go to the map: all but the name of ParseName
IsOption(D, j) == api = "ParseName" => D[j][1] # <<>>

IsDuplicate(D, j) == \E h \in 1..(j - 1) : D[h][1] = D[j][1]

ExpectedMap(D) ==
    IF \A j \in 1..Len(D) : ~IsOption(D, j)
    THEN NilMap
    ELSE <<{D[j] : j \in {h \in 1..Len(D) : IsOption(D, h) /\ ~IsDuplicate(D, h)}}>>

\* the errors of the duplicate items of D, which start at the offsets O
DuplicateErrors(D, O) ==
    LET dups == SelectSeq([j \in 1..Len(D) |-> j], LAMBDA j : IsDuplicate(D, j))
    IN [n \in 1..Len(dups) |->
           [Tag |-> tag, Pos |-> O[dups[n]], Msg |-> D[dups[n]][1], Cause |-> ErrDuplicateKey]]

DuplicateKeys ==
    (pc = "done" /\ api \in {"Parse", "ParseName"}) =>
        LET D == RecognizedItems(conf, tag)
            errs == DuplicateErrors(D, ItemOffsets(conf, tag))
        IN /\ opts = ExpectedMap(D)
           /\ SelectSeq(fails, LAMBDA e : e.Cause # "nil") = errs
           /\ (errs # <<>> /\ fails[1].Cause # "nil") => parseErr = <<errs[1]>>

\* a returned Parse or ParseName whose tag has a key twice with two values
\* and a new key after them: the map has the first value and the new key,
\* and the returned error is the duplicate
DuplicateKeysWitness ==
    /\ pc = "done"
    /\ api \in {"Parse", "ParseName"}
    /\ Len(calls) = 3
    /\ calls[2].key = calls[1].key /\ calls[2].value # calls[1].value
    /\ calls[3].key # calls[1].key
    /\ opts = <<{<<calls[1].key, calls[1].value>>, <<calls[3].key, calls[3].value>>}>>
    /\ Len(parseErr) = 1 /\ parseErr[1].Cause = ErrDuplicateKey
    /\ parseErr[1].Msg = calls[2].key /\ parseErr[1].Pos > 0

(***************************************************************************)
(* C15  Callback failure wrapping: at every point of a parse the errors    *)
(* with a Cause in the log of fail are, in order, one per callback         *)
(* invocation that returned a non-nil error e: Tag the tag, Pos the offset *)
(* of the first byte of the item (0 or the byte after the preceding        *)
(* top-level comma), Msg the key passed to the invocation (empty for the   *)
(* name), Cause e.  When nothing was latched before the first of them it   *)
(* is the error ParseFunc returns; and the callback is invoked for every   *)
(* item of the tag, whichever invocations failed.                          *)
(***************************************************************************)
CallbackErrors(O) ==
    LET bad == SelectSeq([j \in 1..Len(calls) |-> j], LAMBDA j : calls[j].ret # "nil")
    IN [n \in 1..Len(bad) |->
           [Tag |-> tag, Pos |-> O[bad[n]], Msg |-> calls[bad[n]].key,
            Cause |-> calls[bad[n]].ret]]

CallbackFailureWrapping ==
    LET errs == CallbackErrors(ItemOffsets(conf, tag))
    IN /\ SelectSeq(fails, LAMBDA e : e.Cause # "nil") = errs
       /\ (errs # <<>> /\ fails[1].Cause # "nil") => parseErr = <<errs[1]>>
       /\ pc = "done" => Len(calls) = Len(RecognizedItems(conf, tag))

\* a returned ParseFunc whose callback failed for a key that does not start
\* the tag, with nothing latched before: the error carries the key and the
\* item's offset, and a later item was delivered
CallbackFailureWitness ==
    /\ pc = "done"
    /\ api = "ParseFunc"
    /\ \E j \in 1..(Len(calls) - 1) :
          /\ calls[j].ret # "nil" /\ calls[j].key # <<>>
          /\ parseErr = <<[Tag |-> tag, Pos |-> 1, Msg |-> calls[j].key,
                           Cause |-> calls[j].ret]>>

(***************************************************************************)
(* C16  Error rendering: the string Error() returns reads back as its      *)
(* parts.  It ends with " (at N)" where the decimal number N is Pos + 1;   *)
(* what precedes is "<Msg>: <Cause>" when Cause is set and Msg is not      *)
(* empty, "<Cause>" when Cause is set and Msg is empty, and "<Msg>" when   *)
(* Cause is nil.                                                           *)
(***************************************************************************)
\* the number a sequence of decimal digits stands for, or -1
RECURSIVE DecimalValue(_)
DecimalValue(ds) ==
    IF ds = <<>> THEN -1
    ELSE LET d == CHOOSE k \in -1..9 : (k >= 0 /\ DigitBytes[k + 1] = ds[Len(ds)])
                                      \/ (k = -1 /\ \A j \in 1..10 : DigitBytes[j] # ds[Len(ds)])
             rest == Slice(ds, 0, Len(ds) - 1)
         IN IF d = -1 THEN -1
            ELSE IF rest = <<>> THEN d
            ELSE IF DecimalValue(rest) = -1 THEN -1 ELSE 10 * DecimalValue(rest) + d

\* "<Msg>: <Cause>", "<Cause>" or "<Msg>"
RenderedHead(e) ==
    IF e.Cause = "nil" THEN e.Msg
    ELSE IF e.Msg = <<>> THEN <<IF e.Cause = ErrDuplicateKey THEN "duplicate option key"
                                ELSE e.Cause>>
    ELSE e.Msg \o <<":", " ">> \o <<IF e.Cause = ErrDuplicateKey THEN "duplicate option key"
                                     ELSE e.Cause>>

ErrorRendering ==
    pc = "text" =>
        LET e == parseErr[1]
            h == Len(RenderedHead(e))
        IN /\ Len(text) >= h + 7
           /\ Slice(text, 0, h) = RenderedHead(e)
           /\ Slice(text, h, h + 5) = <<" ", "(", "a", "t", " ">>
           /\ DecimalValue(Slice(text, h + 5, Len(text) - 1)) = e.Pos + 1
           /\ text[Len(text)] = ")"

\* Error() was called on an Error with a Cause, an empty Msg and a Pos whose
\* 1-based form has two digits
ErrorRenderingWitness ==
    /\ pc = "text"
    /\ parseErr[1].Cause # "nil"
    /\ parseErr[1].Msg = <<>>
    /\ parseErr[1].Pos = 9
    /\ Len(text) = 9

(***************************************************************************)
(* C17  Precondition of ParseName: on a Configuration with FirstItemIsName *)
(* unset, ParseName panics with its message at the entry: no byte of the   *)
(* tag is scanned, no callback runs, no Error value is made and nothing is *)
(* returned; and nothing else panics: not ParseName with FirstItemIsName   *)
(* set, not Parse.                                                         *)
(***************************************************************************)
ParseNamePrecondition ==
    /\ (api = "ParseName" /\ ~conf.FirstItemIsName /\ pc # "call") =>
          /\ pc = "panic"
          /\ panic = <<"tagparser: ParseName requires a configuration with FirstItemIsName = true">>
          /\ i = 0 /\ count = 0
          /\ calls = <<>> /\ fails = <<>> /\ parseErr = NilErr
          /\ name = <<>> /\ opts = NilMap
    /\ (pc = "panic" \/ panic # <<>>) => (api = "ParseName" /\ ~conf.FirstItemIsName)

\* WithoutName.ParseName has panicked on a tag that has items to deliver
ParseNamePanicWitness ==
    /\ pc = "panic"
    /\ conf = WithoutName
    /\ Len(tag) >= 3
    /\ RecognizedItems(conf, tag) # <<>>

(***************************************************************************)
(* C18  Unterminated quote.  The statement as written: when the tag ends   *)
(* inside a quoted string opened at offset q, "unterminated quote" is      *)
(* raised at q, the last item is delivered, and the bytes after q are      *)
(* quoted content: the parse delivers what the tag with the quote closed   *)
(* at its end delivers.  (A tag that ends with a dangling backslash is     *)
(* left out: the closing quote would be escaped.)                          *)
(***************************************************************************)
\* the offset of the quote that is still open at the end of t, or -1
OpenQuote(c, t) ==
    IF ModeAt(c, t, Len(t)) = "quote"
    THEN Max({k \in 0..(Len(t) - 1) : TopLevel(c, t, k, QT)})
    ELSE -1

UnterminatedQuoteError(q) ==
    [Tag |-> tag, Pos |-> q, Msg |-> MsgUnterminatedQuote, Cause |-> "nil"]

UnterminatedQuoteAsQuoted ==
    (pc = "done" /\ OpenQuote(conf, tag) >= 0 /\ ~EscapeAt(tag, Len(tag) - 1)) =>
        /\ \E k \in 1..Len(fails) : fails[k] = UnterminatedQuoteError(OpenQuote(conf, tag))
        /\ calls # <<>>
        /\ Delivered = RecognizedItems(conf, tag \o <<QT>>)

(***************************************************************************)
(* C18, amended: when the tag ends inside a quoted string opened at offset *)
(* q, the step after the scan first raises "unterminated quote" with       *)
(* Pos = q and then finalizes one item: the item that holds q, from its    *)
(* start to the end of the tag, split at its first top-level colon before  *)
(* q only (commas and colons after q are content).  The item goes through  *)
(* the usual rules: its texts are normalized, so unescaped whitespace at   *)
(* the end of the tag is trimmed although it follows the quote, and a      *)
(* non-name item whose key is empty raises "empty key" and is not          *)
(* delivered; otherwise the callback receives it.                          *)
(***************************************************************************)
UnterminatedQuote ==
    [][(pc = "scan" /\ pc' = "done" /\ OpenQuote(conf, tag) >= 0) =>
          LET q == OpenQuote(conf, tag)
              n == Len(tag)
              s == ItemStart(conf, tag, q)
              p == ItemColon(conf, tag, s, q)
              named == s = 0 /\ conf.FirstItemIsName /\ p = q
              k == IF named THEN <<>>
                   ELSE IF p < q THEN Norm(conf, Slice(tag, s, p))
                   ELSE Norm(conf, Slice(tag, s, n))
              v == IF p < q THEN Norm(conf, Slice(tag, p + 1, n))
                   ELSE IF named THEN Norm(conf, Slice(tag, s, n))
                   ELSE <<>>
          IN /\ Len(fails') > Len(fails)
             /\ fails'[Len(fails) + 1] = UnterminatedQuoteError(q)
             /\ IF k = <<>> /\ ~named
                THEN calls' = calls /\ fails'[Len(fails')] = EmptyKeyError(s)
                ELSE /\ Len(calls') = Len(calls) + 1
                     /\ Delivered'[Len(calls')] = <<k, v>>]_vars

\* a returned parse of a tag that ends inside a quoted string with a comma
\* and a colon after the quote: "unterminated quote" is the returned error
\* and the one delivered item holds the comma and the colon
UnterminatedQuoteWitness ==
    /\ pc = "done"
    /\ OpenQuote(conf, tag) >= 0
    /\ \E a, b \in (OpenQuote(conf, tag) + 1)..(Len(tag) - 1) :
          At(tag, a) = "," /\ At(tag, b) = ":"
    /\ parseErr = <<UnterminatedQuoteError(OpenQuote(conf, tag))>>
    /\ Len(calls) = 1
    /\ \/ IndexByte(calls[1].key, ",") /\ IndexByte(calls[1].key, ":")
       \/ IndexByte(calls[1].value, ",") /\ IndexByte(calls[1].value, ":")

(***************************************************************************)
(* C19  Strict quoting: with AllowMiddleQuote unset, a key or value raises *)
(* no "invalid quote" exactly when its trimmed text has no unescaped       *)
(* depth-0 quote or is one quoted string from its first byte to its last;  *)
(* unquoted text before the opening quote or after the closing quote       *)
(* raises "invalid quote".  Stated for the tags that are one item without  *)
(* key/value colon (a name or a key) and have neither an unterminated      *)
(* quote nor a dangling backslash.                                         *)
(***************************************************************************)
\* the unescaped depth-0 quotes of the text T
TopQuotes(c, T) == {k \in 0..(Len(T) - 1) : At(T, k) = QT /\ ~Escaped(T, k)
                                             /\ ModeAt(c, T, k) # "nest"}

\* T is exactly one quoted string: it opens at the first byte and its
\* closing quote is the last byte
OneQuotedString(c, T) ==
    /\ Len(T) >= 2
    /\ TopQuotes(c, T) = {0, Len(T) - 1}

InvalidQuoteRaised == \E k \in 1..Len(fails) : fails[k].Msg = MsgInvalidQuote

\* the tag is one item without key/value colon
OneItem(c, t) == \A k \in 0..(Len(t) - 1) : ~TopLevel(c, t, k, ",") /\ ~TopLevel(c, t, k, ":")

StrictQuoting ==
    (pc = "done" /\ ~conf.AllowMiddleQuote /\ OneItem(conf, tag)
        /\ OpenQuote(conf, tag) = -1
        /\ ~(tag # <<>> /\ EscapeAt(tag, Len(tag) - 1))) =>
        (~InvalidQuoteRaised <=>
            (TopQuotes(conf, Kept(tag)) = {} \/ OneQuotedString(conf, Kept(tag))))

(***************************************************************************)
(* C20.  Strict and permissive modes deliver the same items: for every tag *)
(* and every two Configurations that differ only in AllowMiddleQuote, the  *)
(* callback receives the identical sequence of (key, value) pairs; the     *)
(* permissive one never raises "invalid quote"; and the two results differ *)
(* at most in that the strict one may return an "invalid quote" error.     *)
(* The call on conf and the call on Counterpart are compared: the errors   *)
(* of the permissive call are those of the strict call without its         *)
(* "invalid quote" errors, in the same order, so the error returned is the *)
(* same unless the strict call returns "invalid quote"; and at the end the *)
(* pairs delivered are the pairs of the recognized items of the tag under  *)
(* Counterpart.                                                            *)
(***************************************************************************)
IsInvalidQuote(e) == e.Msg = MsgInvalidQuote /\ e.Cause = "nil"

NotInvalidQuote(e) == ~IsInvalidQuote(e)

\* the error latches of the strict and of the permissive one of the two calls
StrictLatch == IF conf.AllowMiddleQuote THEN twin ELSE Latch

PermissiveLatch == IF conf.AllowMiddleQuote THEN Latch ELSE twin

StrictPermissive ==
    /\ \A k \in 1..Len(PermissiveLatch.log) : NotInvalidQuote(PermissiveLatch.log[k])
    /\ PermissiveLatch.log = SelectSeq(StrictLatch.log, NotInvalidQuote)
    /\ StrictLatch.err # PermissiveLatch.err =>
           StrictLatch.err # NilErr /\ IsInvalidQuote(StrictLatch.err[1])
    /\ pc = "done" => Delivered = RecognizedItems(Counterpart, tag)

\* a finished strict parse that delivered an item with a quote in the middle
\* and returns "invalid quote", where the permissive parse returns no error
StrictPermissiveWitness ==
    /\ pc = "done"
    /\ ~conf.AllowMiddleQuote
    /\ Delivered # <<>>
    /\ parseErr # NilErr
    /\ IsInvalidQuote(parseErr[1])
    /\ twin.err = NilErr

(***************************************************************************)
(* C21  Callback count: at every point of a parse the number of callback   *)
(* invocations made so far is the number of the items already ended (by    *)
(* their top-level comma or by the end of the tag) that survive the skip   *)
(* rules, and when ParseFunc returns it is the number of surviving items   *)
(* of the tag.  The items of a tag are the stretches between its top-level *)
(* commas (an empty tag has none); skipped are exactly the zero-length     *)
(* items other than the first item under FirstItemIsName, and the items    *)
(* that are not the name and whose normalized key is empty.  The number is *)
(* a function of the tag and the Configuration: the callback may fail at   *)
(* any invocation and syntax errors may be raised anywhere.                *)
(***************************************************************************)
\* the start offsets of the comma-separated items of t
ItemStarts(c, t) ==
    IF t = <<>> THEN {}
    ELSE {0} \cup {k + 1 : k \in {j \in 0..(Len(t) - 1) : TopLevel(c, t, j, ",")}}

\* the item of t that starts at s is not skipped
Survives(c, t, s) ==
    LET e == ItemEnd(c, t, s)
        p == ItemColon(c, t, s, e)
    IN IF s = 0 /\ c.FirstItemIsName /\ p = e
       THEN TRUE
       ELSE s < e /\ Norm(c, Slice(t, s, p)) # <<>>

\* the surviving items of the tag that the parse has ended so far
SurvivorsEnded ==
    {s \in ItemStarts(conf, tag) :
        /\ Survives(conf, tag, s)
        /\ \/ pc = "done"
           \/ ItemEnd(conf, tag, s) < Len(tag) /\ ItemEnd(conf, tag, s) < i}

CallbackCount == Len(calls) = Cardinality(SurvivorsEnded)

\* a finished parse of a tag of three items: the first raised "empty key" and
\* was skipped, the second is zero-length, the third was delivered
CallbackCountWitness ==
    /\ pc = "done"
    /\ Cardinality(ItemStarts(conf, tag)) = 3
    /\ ItemEnd(conf, tag, 0) > 0
    /\ fails # <<>> /\ fails[1].Msg = MsgEmptyKey /\ fails[1].Pos = 0
    /\ ItemEnd(conf, tag, ItemEnd(conf, tag, 0) + 1) = ItemEnd(conf, tag, 0) + 1
    /\ Len(calls) = 1
    /\ calls[1].key # <<>>

(***************************************************************************)
(* C22  Normalizer idempotence.  The statement as written: when the result *)
(* r of unquoteTrim holds no backslash and no single quote, unquoteTrim(r) *)
(* returns r unchanged and reports no error.                               *)
(***************************************************************************)
NoRawEscapeOrQuote(s) == ~IndexByte(s, BS) /\ ~IndexByte(s, QT)

IdempotentOnResult ==
    [][(count >= 1 /\ NoRawEscapeOrQuote(key)) => (key' = key /\ fails' = fails)]_vars

(***************************************************************************)
(* C22, amended: when the result r of unquoteTrim holds no backslash and   *)
(* no single quote and neither starts nor ends with an ASCII whitespace    *)
(* byte, unquoteTrim(r) returns r unchanged and reports no error.  (An     *)
(* escaped or quoted whitespace byte at either end of the input survives   *)
(* the first call and is trimmed by the second.)                           *)
(***************************************************************************)
NoOuterWhitespace(s) ==
    s # <<>> => (At(s, 0) \notin asciiSpace /\ At(s, Len(s) - 1) \notin asciiSpace)

IdempotentOnTrimmedResult ==
    [][(count >= 1 /\ NoRawEscapeOrQuote(key) /\ NoOuterWhitespace(key)) =>
           (key' = key /\ fails' = fails)]_vars

\* unquoteTrim has run twice: the first call removed quotes or backslashes
\* and returned a text of two bytes or more with a comma or a space inside,
\* and the second call returned the same text
IdempotentWitness ==
    /\ pc = "norm"
    /\ count = 2
    /\ ~NoRawEscapeOrQuote(tag)
    /\ NoRawEscapeOrQuote(key) /\ NoOuterWhitespace(key)
    /\ Len(key) >= 2
    /\ IndexByte(key, ",") \/ IndexByte(key, " ")

(***************************************************************************)
(* C23  Escaping any non-alphabetical character is allowed: when ParseFunc *)
(* returns, no backslash followed by a byte that is not a letter (a digit  *)
(* included) has raised "invalid escape character", and the escaped byte   *)
(* is in the output: for an escaped digit the parse delivers what the tag  *)
(* without the backslash delivers (for the other bytes see C9).            *)
(***************************************************************************)
\* the escape sequences of the tag whose second byte is not a letter
NonLetterEscapes ==
    {p \in 0..(Len(tag) - 2) : EscapeAt(tag, p) /\ At(tag, p + 1) \notin Letters}

EscapeNonLetter ==
    pc = "done" =>
        \A p \in NonLetterEscapes :
            /\ ~Raised(p + 1, MsgInvalidEscape)
            /\ At(tag, p + 1) \in Digits => Delivered = RecognizedItems(conf, Remove(tag, p))

(***************************************************************************)
(* C24  Cause is set only for consumer failures: at every point of a parse *)
(* every error given to fail is either a syntax error, with one of the     *)
(* five messages of the scanner and the normalizer as Msg and a nil Cause, *)
(* or the record of a failed callback invocation, with the key of that     *)
(* invocation as Msg and the error the callback returned as Cause (in      *)
(* Parse and ParseName always ErrDuplicateKey).  The error returned is one *)
(* of them, so its Cause is non-nil exactly when it records a callback     *)
(* error.                                                                  *)
(***************************************************************************)
SyntaxMessages ==
    {MsgInvalidEscape, MsgUnterminatedEscape, MsgUnterminatedQuote, MsgInvalidQuote,
     MsgEmptyKey}

\* e records an invocation of the callback that returned a non-nil error
RecordsCallbackError(e) ==
    \E j \in 1..Len(calls) :
        calls[j].ret # "nil" /\ calls[j].ret = e.Cause /\ calls[j].key = e.Msg

CauseOnlyFromCallback ==
    /\ \A k \in 1..Len(fails) :
          IF fails[k].Msg \in SyntaxMessages
          THEN fails[k].Cause = "nil" /\ ~RecordsCallbackError(fails[k])
          ELSE fails[k].Cause # "nil" /\ RecordsCallbackError(fails[k])
    /\ parseErr # NilErr =>
          /\ \E k \in 1..Len(fails) : fails[k] = parseErr[1]
          /\ parseErr[1].Cause # "nil" <=> RecordsCallbackError(parseErr[1])
    /\ api \in {"Parse", "ParseName"} =>
          \A k \in 1..Len(fails) : fails[k].Cause \in {"nil", ErrDuplicateKey}
    /\ Cardinality({k \in 1..Len(fails) : fails[k].Cause # "nil"})
           = Cardinality({j \in 1..Len(calls) : calls[j].ret # "nil"})

\* Parse has returned a syntax error, with a nil Cause, and raised a duplicate
\* key after it
CauseWitness ==
    /\ pc = "done"
    /\ api = "Parse"
    /\ parseErr # NilErr
    /\ parseErr[1].Cause = "nil"
    /\ \E k \in 2..Len(fails) : fails[k].Cause = ErrDuplicateKey

(***************************************************************************)
(* C25  Termination and bounds: every call of ParseFunc whose callback     *)
(* returns comes to its return; every iteration of the scan loop reads the *)
(* byte at an index i inside the tag and leaves the index larger than it   *)
(* was; the slices tag[start:i] taken for a key (at a colon) and for an    *)
(* item (at a comma, and tag[start:n] at the end) have start <= i <=       *)
(* len(tag); and every call of unquoteTrim keeps its cursors inside its    *)
(* argument s: 0 <= start <= end <= len(s), the loop index ends at most at *)
(* len(s), the result is no longer than s and a reported errPos is the     *)
(* index of a byte of s.                                                   *)
(***************************************************************************)
\* the cursors of unquoteTrim(s) stay inside s
CursorsInside(c, s) ==
    LET n == Len(s)
        from == trimStart(s, 0)
        end == trimEnd(s, from, n)
        st == mainLoop(c, s, end,
                  [i |-> from, b |-> <<>>, inQuote |-> FALSE, nesting |-> 0,
                   quoteCount |-> 0, parseErr |-> "", errPos |-> 0])
        r == unquoteTrim(c, s)
    IN /\ 0 <= from /\ from <= end /\ end <= n
       /\ from <= st.i /\ st.i <= n
       /\ Len(r.result) <= n
       /\ r.parseErr # "" => (0 <= r.errPos /\ r.errPos < n)

\* the indices and slices of the scan are inside the tag
ScanBounds ==
    /\ 0 <= start /\ start <= i /\ start <= Len(tag)
    /\ i <= Len(tag) + 1
    /\ 0 <= keyStart /\ keyStart + Len(key) <= Len(tag)
    /\ pc = "scan" =>
          /\ CursorsInside(conf, key)
          /\ CursorsInside(conf, Slice(tag, start, IF i < Len(tag) THEN i ELSE Len(tag)))

\* an iteration of the loop reads tag[i] with 0 <= i < len(tag) and advances
LoopAdvances ==
    (pc = "scan" /\ pc' = "scan") => (0 <= i /\ i < Len(tag) /\ i' > i)

TerminationAndBounds ==
    /\ []ScanBounds
    /\ [][LoopAdvances]_vars
    /\ <>(pc = "done")

\* a parse that has returned after its index passed the end of the tag: the
\* last byte is a backslash, and the item before it was delivered
TerminationWitness ==
    /\ pc = "done"
    /\ i = Len(tag) + 1
    /\ calls # <<>>

(***************************************************************************)
(* C26  Reentrancy: when two calls of Parse or ParseName (and so of        *)
(* ParseFunc, each with the callback state of its own) run on the same     *)
(* Configuration with their steps interleaved in any order, no step        *)
(* writes the Configuration, a step of one call leaves the locals of the   *)
(* other call as they are, and a call that has returned has delivered the  *)
(* items and returns the error, the name and the map that the same call    *)
(* delivered and returned when it ran alone.                               *)
(***************************************************************************)
\* the locals of the call that was run alone before, now run again
Again == IF other[1].again THEN other[1].call ELSE Locals

\* a step of the running call, not a switch to the other call
StepOfRunning == other # <<>> /\ other' # <<>> /\ other'[1].again = other[1].again

SameAsAlone ==
    (other # <<>> /\ Again.pc \in {"done", "panic"}) => Again = solo[1]

RECURSIVE NormDepth(_, _, _)
NormDepth(c, s, k) ==
    IF k = 0 \/ ~c.AllowParenEscape THEN 0
    ELSE LET d == NormDepth(c, s, k - 1)
             b == At(s, k - 1)
         IN IF Escaped(s, k - 1) THEN d
            ELSE IF b \in OpenBrackets THEN d + 1
            ELSE IF b \in CloseBrackets /\ d > 0 THEN d - 1
            ELSE d

\* the offsets of the unescaped depth-0 quotes of s
NormQuotes(c, s) ==
    {k \in 0..(Len(s) - 1) : At(s, k) = QT /\ ~Escaped(s, k) /\ NormDepth(c, s, k) = 0}

\* the offsets before q, after the leading whitespace, of the bytes that are
\* emitted: all but the unescaped backslashes
EmittedBefore(s, q) ==
    LET from == Min({k \in 0..(Len(s) - 1) : At(s, k) \notin asciiSpace} \cup {Len(s)})
    IN {k \in from..(q - 1) : Escaped(s, k) \/ At(s, k) # BS}

\* q is the n-th of the quotes Q
Rank(Q, q) == Cardinality({p \in Q : p <= q})

\* the quotes the rule rejects, as written
RejectedAsWritten(c, s) ==
    LET Q == NormQuotes(c, s)
    IN {q \in Q : \/ Rank(Q, q) >= 3
                  \/ /\ Rank(Q, q) = 1
                     /\ \E k \in EmittedBefore(s, q) : At(s, k) \notin asciiSpace}

\* the bytes of s from offset k on without the unescaped backslashes and the
\* quotes Q
RECURSIVE PlainFrom(_, _, _)
PlainFrom(s, k, Q) ==
    IF k >= Len(s) THEN <<>>
    ELSE IF Escaped(s, k) \/ (At(s, k) # BS /\ k \notin Q)
         THEN <<At(s, k)>> \o PlainFrom(s, k + 1, Q)
         ELSE PlainFrom(s, k + 1, Q)

\* the call unquoteTrim(key) of this step reports the first of the quotes V,
\* or nothing when there is none, and returns the text without its quotes
QuoteRuleStep(V) ==
    /\ key' = PlainFrom(Kept(key), 0, NormQuotes(conf, Kept(key)))
    /\ fails' = IF V = {} THEN fails
                ELSE Append(fails, [Tag |-> tag, Pos |-> keyStart + Min(V),
                                    Msg |-> MsgInvalidQuote, Cause |-> "nil"])

StrictQuoteRuleAsWritten ==
    [][~conf.AllowMiddleQuote => QuoteRuleStep(RejectedAsWritten(conf, key))]_vars

(***************************************************************************)
(* C27, amended: as above, but the first quote is rejected when any output *)
(* has been emitted before it, whitespace included (an escaped whitespace  *)
(* byte before the opening quote is output): it is accepted only as the    *)
(* first byte after the leading whitespace of s.                           *)
(***************************************************************************)
Rejected(c, s) ==
    LET Q == NormQuotes(c, s)
    IN {q \in Q : Rank(Q, q) >= 3 \/ (Rank(Q, q) = 1 /\ EmittedBefore(s, q) # {})}

StrictQuoteRule ==
    [][~conf.AllowMiddleQuote => QuoteRuleStep(Rejected(conf, key))]_vars

\* a strict call on a substring with two rejected quotes, the first quote
\* after emitted text and the third quote, has reported the first one
StrictQuoteRuleWitness ==
    /\ pc = "norm"
    /\ count = 1
    /\ ~conf.AllowMiddleQuote
    /\ LET V == Rejected(conf, Slice(tag, keyStart, Len(tag)))
       IN /\ Cardinality(V) = 2
          /\ Len(fails) = 1
          /\ fails[1].Pos = keyStart + Min(V)
    /\ key # <<>>

(***************************************************************************)
(* C28  Scanner and normalizer agree on nesting: with AllowParenEscape     *)
(* set, whenever the scanner reads a byte, its nesting depth is the depth  *)
(* unquoteTrim has when it reads that byte of the key or value substring   *)
(* the byte belongs to (the substring starts at start); and when ParseFunc *)
(* returns, every key and value delivered is its substring without the     *)
(* outer whitespace, the unescaped backslashes and the quotes the scanner  *)
(* took for the opening or closing quote of a quoted string: these quotes  *)
(* are removed, and the quotes the scanner read inside brackets are        *)
(* emitted.                                                                *)
(***************************************************************************)
\* the locals of unquoteTrim(s) when its loop is about to read s[k]
NormalizerAt(c, s, k) ==
    mainLoop(c, s, k,
        [i |-> trimStart(s, 0), b |-> <<>>, inQuote |-> FALSE, nesting |-> 0,
         quoteCount |-> 0, parseErr |-> "", errPos |-> 0])

\* the nesting of unquoteTrim(s) when its loop is about to read s[k]
NormalizerNesting(c, s, k) == NormalizerAt(c, s, k).nesting

\* the substring tag[a:b] without outer whitespace, unescaped backslashes and
\* the quotes that the scanner read outside brackets
WithoutScannerQuotes(a, b) ==
    LET s == Slice(tag, a, b)
        from == Min({k \in 0..(Len(s) - 1) : At(s, k) \notin asciiSpace} \cup {Len(s)})
        K == Kept(s)
    IN PlainFrom(K, 0,
           {k \in 0..(Len(K) - 1) :
               /\ At(K, k) = QT
               /\ ~Escaped(K, k)
               /\ ModeAt(conf, tag, a + from + k) # "nest"})

\* what the item tag[s:e] delivers when the normalizer removes the scanner's quotes
PairsByScanner(s, e) ==
    LET p == ItemColon(conf, tag, s, e)
    IN IF s = 0 /\ conf.FirstItemIsName /\ p = e
       THEN << <<(<<>>), WithoutScannerQuotes(s, e)>> >>
       ELSE LET k == WithoutScannerQuotes(s, p)
                v == IF p < e THEN WithoutScannerQuotes(p + 1, e) ELSE <<>>
            IN IF k = <<>> \/ (s = e) THEN <<>> ELSE << <<k, v>> >>

RECURSIVE ItemsByScanner(_)
ItemsByScanner(s) ==
    LET e == ItemEnd(conf, tag, s)
    IN IF e = Len(tag)
       THEN (IF s < e THEN PairsByScanner(s, e) ELSE <<>>)
       ELSE PairsByScanner(s, e) \o ItemsByScanner(e + 1)

NestingAgreement ==
    conf.AllowParenEscape =>
        /\ (pc = "scan" /\ i < Len(tag)) =>
               nesting = NormalizerNesting(conf, Slice(tag, start, i + 1), i - start)
        /\ pc = "done" => Delivered = ItemsByScanner(0)

(***************************************************************************)
(* C29  Brackets are ordinary bytes when AllowParenEscape is unset: the    *)
(* nesting depth of the scanner and of the normalizer stays 0 for the      *)
(* whole parse, so the scanner is inside a quoted string exactly after an  *)
(* odd number of unescaped quotes, the current substring starts after the  *)
(* last unescaped comma outside quotes (or after the first unescaped colon *)
(* outside quotes behind it), whether or not brackets surround them, and   *)
(* every unescaped quote is removed from the keys and values delivered.    *)
(***************************************************************************)
\* an odd number of unescaped quotes before byte k
OddQuotes(k) ==
    Cardinality({q \in 0..(k - 1) : At(tag, q) = QT /\ ~Escaped(tag, q)}) % 2 = 1

\* the unescaped bytes c before byte k that are outside quoted strings
PlainBefore(c, from, k) ==
    {q \in from..(k - 1) : At(tag, q) = c /\ ~Escaped(tag, q) /\ ~OddQuotes(q)}

\* where the item of byte k starts when brackets are ordinary bytes
PlainItemStart(k) == Max({0} \cup {q + 1 : q \in PlainBefore(",", 0, k)})

BracketsOrdinary ==
    ~conf.AllowParenEscape =>
        /\ nesting = 0
        /\ (pc = "scan" /\ i < Len(tag)) =>
               LET s == PlainItemStart(i)
                   P == PlainBefore(":", s, i)
               IN /\ NormalizerNesting(conf, Slice(tag, start, i + 1), i + 1 - start) = 0
                  /\ (quoteStart >= 0) <=> OddQuotes(i)
                  /\ inValue <=> (P # {})
                  /\ start = IF P = {} THEN s ELSE Min(P) + 1
        /\ pc = "done" => Delivered = ItemsByScanner(0)

\* a comma between parentheses has ended an item: both halves were delivered
BracketsOrdinaryWitness ==
    /\ ~conf.AllowParenEscape
    /\ pc = "done"
    /\ Len(calls) = 2
    /\ \E a, b, c \in 0..(Len(tag) - 1) :
           /\ a < b /\ b < c
           /\ At(tag, a) = "(" /\ At(tag, b) = "," /\ At(tag, c) = ")"

(***************************************************************************)
(* C30  Nesting depth invariant: with AllowParenEscape set, whenever the   *)
(* scanner reads a byte its nesting is not negative and is the number of   *)
(* unescaped brackets of the current key or value substring that were      *)
(* opened and not yet closed, and so is the nesting of unquoteTrim at that *)
(* byte; a closing bracket read at depth 0 outside quotes leaves the depth *)
(* at 0, raises no error and is appended to the output; every closing kind *)
(* closes every opening kind (the count does not look at the kind).        *)
(***************************************************************************)
\* the brackets open, and whether a quoted string is open, after tag[from:k]
RECURSIVE OpenCount(_, _, _)
OpenCount(t, from, k) ==
    IF k <= from THEN [depth |-> 0, inQuote |-> FALSE]
    ELSE LET p == OpenCount(t, from, k - 1)
             ch == At(t, k - 1)
         IN IF ch = BS \/ Escaped(t, k - 1) THEN p
            ELSE IF p.inQuote THEN [p EXCEPT !.inQuote = (ch # QT)]
            ELSE IF p.depth > 0
                 THEN [p EXCEPT !.depth = IF ch \in OpenBrackets THEN @ + 1
                                          ELSE IF ch \in CloseBrackets THEN @ - 1
                                          ELSE @]
                 ELSE [p EXCEPT !.depth = IF ch \in OpenBrackets THEN 1 ELSE 0,
                                !.inQuote = (ch = QT)]

DepthIsOpenCount ==
    (conf.AllowParenEscape /\ pc = "scan" /\ i < Len(tag)) =>
        LET s == Slice(tag, start, i + 1)
            at == NormalizerAt(conf, s, i - start)
            after == NormalizerAt(conf, s, i + 1 - start)
        IN /\ nesting >= 0
           /\ nesting = OpenCount(tag, start, i).depth
           /\ at.nesting >= 0
           /\ at.nesting = OpenCount(tag, start, i).depth
           /\ (At(tag, i) \in CloseBrackets /\ at.nesting = 0 /\ ~at.inQuote
                   /\ at.i = i - start) =>
                  /\ after.nesting = 0
                  /\ after.b = Append(at.b, At(tag, i))
                  /\ after.parseErr = at.parseErr

ClosingAtDepthZero ==
    (/\ conf.AllowParenEscape
     /\ pc = "scan"
     /\ i < Len(tag)
     /\ At(tag, i) \in CloseBrackets
     /\ quoteStart < 0
     /\ nesting = 0) =>
        /\ nesting' = 0
        /\ i' = i + 1
        /\ parseErr' = parseErr
        /\ fails' = fails

NestingDepthInvariant == []DepthIsOpenCount /\ [][ClosingAtDepthZero]_vars

(***************************************************************************)
(* C31  Quotes inside brackets under strict mode: with AllowParenEscape    *)
(* set and AllowMiddleQuote unset, a single quote that the scanner reads   *)
(* at nesting > 0 leaves quoteStart and the error latch as they are, and   *)
(* unquoteTrim, too, is at nesting > 0 when it reads that quote; a quote   *)
(* that unquoteTrim reads at nesting > 0 is appended to the output and     *)
(* leaves inQuote, quoteCount and the normalizer's error as they are; and  *)
(* no "invalid quote" that ParseFunc records is at a quote the scanner     *)
(* read inside brackets.  The depth of each component is its own nesting.  *)
(***************************************************************************)
StrictNestedQuoteState ==
    (conf.AllowParenEscape /\ ~conf.AllowMiddleQuote) =>
        /\ (pc = "scan" /\ i < Len(tag) /\ At(tag, i) = QT) =>
               LET s == Slice(tag, start, i + 1)
                   at == NormalizerAt(conf, s, i - start)
                   after == NormalizerAt(conf, s, i + 1 - start)
               IN /\ (nesting > 0) => (at.i = i - start /\ at.nesting > 0)
                  /\ (at.i = i - start /\ at.nesting > 0) =>
                         /\ after.b = Append(at.b, QT)
                         /\ after.inQuote = at.inQuote
                         /\ after.quoteCount = at.quoteCount
                         /\ after.parseErr = at.parseErr
                         /\ after.errPos = at.errPos
        /\ \A k \in 1..Len(fails) :
               fails[k].Msg = MsgInvalidQuote => ModeAt(conf, tag, fails[k].Pos) # "nest"

StrictNestedQuoteStep ==
    (/\ conf.AllowParenEscape /\ ~conf.AllowMiddleQuote
     /\ pc = "scan" /\ i < Len(tag) /\ At(tag, i) = QT
     /\ nesting > 0) =>
        /\ quoteStart' = quoteStart
        /\ quoteStart < 0
        /\ nesting' = nesting
        /\ parseErr' = parseErr
        /\ fails' = fails

StrictNestedQuote == []StrictNestedQuoteState /\ [][StrictNestedQuoteStep]_vars

\* a strict parse has delivered a value with a quote between brackets and a
\* quoted string before them, and has raised no error
StrictNestedQuoteWitness ==
    /\ conf.AllowParenEscape /\ ~conf.AllowMiddleQuote
    /\ pc = "done"
    /\ fails = <<>>
    /\ \E q \in 0..(Len(tag) - 1) : At(tag, q) = QT /\ ModeAt(conf, tag, q) = "nest"
    /\ \E q \in 0..(Len(tag) - 1) : At(tag, q) = QT /\ ModeAt(conf, tag, q) = "quote"
    /\ \E k \in 1..Len(calls) : IndexByte(calls[k].key \o calls[k].value, QT)

(***************************************************************************)
(* C32  Unclosed bracket: with AllowParenEscape set, when an opening       *)
(* bracket read at depth 0 outside quotes at offset p is followed by no    *)
(* unescaped closing bracket, the scanner stays inside brackets from p to  *)
(* the end of the tag: no later comma, colon or quote ends an item, starts *)
(* a value or opens a quoted string, the only errors recorded behind p are *)
(* escape errors, no "unterminated quote" is raised, and the final flush   *)
(* delivers one item whose key (or value, or name) ends with the           *)
(* normalized text from p to the end of the tag.  The statement as         *)
(* written: that item is always delivered.                                 *)
(***************************************************************************)
Unclosed(p) ==
    /\ conf.AllowParenEscape
    /\ p < Len(tag)
    /\ TopLevel(conf, tag, p, At(tag, p))
    /\ At(tag, p) \in OpenBrackets
    /\ \A k \in (p + 1)..(Len(tag) - 1) : ~(At(tag, k) \in CloseBrackets /\ ~Escaped(tag, k))

IsSuffix(r, s) == Len(r) <= Len(s) /\ r = SubSeq(s, Len(s) - Len(r) + 1, Len(s))

\* the calls of the next state are the calls of this state and one more,
\* which carries the normalized text from p to the end of the tag
DeliversRest(p) ==
    /\ Len(calls') = Len(calls) + 1
    /\ SubSeq(calls', 1, Len(calls)) = calls
    /\ LET last == calls'[Len(calls')]
           rest == unquoteTrim(conf, Slice(tag, p, Len(tag))).result
       IN /\ rest # <<>>
          /\ IsSuffix(rest, IF inValue \/ last.key = <<>> THEN last.value ELSE last.key)

UnclosedState ==
    \A p \in 0..(Len(tag) - 1) :
        (Unclosed(p) /\ pc \in {"scan", "done"} /\ i > p) =>
            /\ nesting > 0
            /\ quoteStart < 0
            /\ start <= p
            /\ \A k \in 1..Len(fails) :
                   /\ fails[k].Pos > p =>
                          fails[k].Msg \in {MsgInvalidEscape, MsgUnterminatedEscape}
                   /\ fails[k].Pos >= p => fails[k].Msg # MsgUnterminatedQuote

UnclosedScan(p) ==
    (Unclosed(p) /\ pc = "scan" /\ i > p /\ pc' = "scan") =>
        /\ calls' = calls
        /\ start' = start
        /\ inValue' = inValue
        /\ key' = key
        /\ count' = count

UnclosedBracketAsWritten ==
    /\ []UnclosedState
    /\ [][\A p \in 0..(Len(tag) - 1) :
              /\ UnclosedScan(p)
              /\ (Unclosed(p) /\ pc = "scan" /\ pc' = "done") => DeliversRest(p)]_vars

\* the key of the item that the final flush is about to check is empty
EmptyKeyAtEnd == inValue /\ unquoteTrim(conf, key).result = <<>>

UnclosedBracket ==
    /\ []UnclosedState
    /\ [][\A p \in 0..(Len(tag) - 1) :
              /\ UnclosedScan(p)
              /\ (Unclosed(p) /\ pc = "scan" /\ pc' = "done") =>
                     IF EmptyKeyAtEnd
                     THEN /\ calls' = calls
                          /\ \E k \in 1..Len(fails') :
                                 fails'[k].Msg = MsgEmptyKey /\ fails'[k].Pos = keyStart
                     ELSE DeliversRest(p)]_vars

\* after an unclosed bracket a comma, a colon and a quote were read, and the
\* parse has delivered them in one key without any error
UnclosedBracketWitness ==
    /\ pc = "done"
    /\ fails = <<>>
    /\ Len(calls) = 1
    /\ \E p \in 0..(Len(tag) - 1) :
           /\ Unclosed(p)
           /\ \E a, b \in (p + 1)..(Len(tag) - 1) : At(tag, a) = "," /\ At(tag, b) = QT
           /\ IsSuffix(Slice(tag, p, Len(tag)), calls[1].key \o calls[1].value)

(***************************************************************************)
(* C33  Reported error.  The statement as written: when a parse detects    *)
(* several failures, the error ParseFunc returns is the one with the       *)
(* smallest byte position.  The statement that holds: ParseFunc returns    *)
(* the failure detected first, and failures are detected item by item from *)
(* left to right; within one item first the escape errors in the order of  *)
(* their positions (found during the scan), then "unterminated quote",     *)
(* then the "invalid quote" of the key and of the value, then "empty key"  *)
(* or the failure of the callback (found when the item is finalized).  So  *)
(* a failure of an earlier item always wins over one of a later item, and  *)
(* within one item the smaller position wins only among failures of the    *)
(* same stage.                                                             *)
(***************************************************************************)
\* the stage of the parse of an item that detects the failure f
Stage(f) ==
    IF f.Cause # "nil" THEN 3
    ELSE IF f.Msg \in {MsgInvalidEscape, MsgUnterminatedEscape} THEN 0
    ELSE IF f.Msg = MsgUnterminatedQuote THEN 1
    ELSE IF f.Msg = MsgInvalidQuote THEN 2
    ELSE 3

\* f is detected before g, or together with g
DetectedBefore(f, g) ==
    LET a == ItemStart(conf, tag, f.Pos)
        b == ItemStart(conf, tag, g.Pos)
    IN \/ a < b
       \/ a = b /\ Stage(f) < Stage(g)
       \/ a = b /\ Stage(f) = Stage(g) /\ f.Pos <= g.Pos

LeftmostError ==
    (pc = "done" /\ parseErr # NilErr) =>
        \A k \in 1..Len(fails) : parseErr[1].Pos <= fails[k].Pos

FirstDetectedError ==
    /\ parseErr = IF fails = <<>> THEN NilErr ELSE <<fails[1]>>
    /\ \A j, k \in 1..Len(fails) : j < k => DetectedBefore(fails[j], fails[k])
    /\ (pc = "done" /\ parseErr # NilErr) =>
           \A k \in 1..Len(fails) :
               ItemStart(conf, tag, parseErr[1].Pos) <= ItemStart(conf, tag, fails[k].Pos)

\* the returned error belongs to the first item, a failure of the second item
\* was discarded, and a failure of the first item at a smaller position too
FirstDetectedErrorWitness ==
    /\ pc = "done"
    /\ parseErr # NilErr
    /\ \E k \in 2..Len(fails) :
           ItemStart(conf, tag, fails[k].Pos) > ItemStart(conf, tag, parseErr[1].Pos)
    /\ \E k \in 2..Len(fails) :
           /\ ItemStart(conf, tag, fails[k].Pos) = ItemStart(conf, tag, parseErr[1].Pos)
           /\ fails[k].Pos < parseErr[1].Pos

====
